---- MODULE Spec2Model ----
(***************************************************************************)
(* Place Table (fuzz/src/ptable.rs) over the Abstract Memory               *)
(* (generate/src/mem/mod.rs) of the rustlantis program generator.          *)
(*                                                                         *)
(* Representation notes.                                                   *)
(*  - Option<T> is a set with at most one element: None == {},             *)
(*    Some(x) == {x}.                                                      *)
(*  - NodeIndex, AllocId and RunId are 1-based positions in sequences      *)
(*    (petgraph and index_vec count from 0); only their order and          *)
(*    identity are observable, and both are kept.                          *)
(*  - The edges of the graph are kept per source node, in insertion       *)
(*    order; an EdgeIndex is <<source, position>>. petgraph's              *)
(*    edges_directed walks a node's edges newest first. The numbers        *)
(*    petgraph gives edges (and renumbers on removal) are not observable.  *)
(*  - A TyId is the printed form of the type; tcx is the fixed type        *)
(*    context the tests build (TyCtxt::from_primitives plus pushes).       *)
(***************************************************************************)
EXTENDS Integers, Sequences, FiniteSets, TLC

VARIABLES frames, index_candidates, places, edges, memory, last

vars == <<frames, index_candidates, places, edges, memory, last>>

\* ------------------------------------------------------------------ bounds

\* Most nodes the place graph may hold under Spec (allocate_local stops
\* there).
MaxPlaces == 5
\* The same under SpecPtr: a pointer, the tuple it points at and the
\* pointee of that tuple's field.
MaxPtrPlaces == 4
\* The same under SpecFlow, which declares the six-node tuple of the tests.
MaxTreePlaces == 6
\* The same under SpecCall: a caller's places and a callee's.
MaxCallPlaces == 7
\* The same under SpecRet: the caller's two locals, a return place and the
\* callee's local.
MaxRetPlaces == 4
\* The same under SpecCopy: two tuples and two pointers.
MaxCopyPlaces == 6
\* The same under SpecBorrow: an array of two bytes.
MaxBorrowPlaces == 3
\* Deepest borrow stack explored under SpecBorrow (add_ref stops there).
MaxBorrows == 2
\* The same under SpecStack, on its one byte.
MaxStackBorrows == 3
\* Most run pointers the side table holds for a tag (add_ref stops there).
MaxRunPtrs == 2
\* Places under SpecSel: the caller's tuple and pointer, the callee's return
\* place and argument.
MaxSelPlaces == 5
\* Places under SpecIdx: the caller's integer and array, the callee's
\* return place and argument.
MaxIdxPlaces == 6
\* Places under SpecOff: an integer and two pointers to it.
MaxOffPlaces == 3
\* Places under SpecDf: an integer, two tuples of a pointer in the first
\* function and the return place of a callee, a tuple of a pointer.
MaxDfPlaces == 7
\* Places under SpecMove: a nested tuple with its five subfields and an
\* array of two bytes.
MaxMovePlaces == 9
\* Places under SpecCache: two integers of the caller, the return place and
\* the argument of the callee.
MaxCachePlaces == 4
\* Places under SpecIdxRet: an integer, an array of two bytes and the
\* return place of a callee.
MaxIdxRetPlaces == 5
\* Places under SpecLive: a tuple and an array of the caller, the return
\* slot and the tuple argument of the callee.
MaxLivePlaces == 8
\* Places under SpecMark: an array of two bytes and a pointer.
MaxMarkPlaces == 4
\* Places under SpecAbort: two integers, a tuple and its field.
MaxAbortPlaces == 4
\* Width of isize in bits: offsets wrap around at 2 ^ (IsizeBits - 1).
IsizeBits == 3
\* Deepest call stack explored (the fn0 frame included).
MaxFrames == 2

\* ----------------------------------------------------------------- helpers

None == {}
Some(x) == {x}
Unwrap(o) == CHOOSE x \in o : TRUE

Range(s) == {s[i] : i \in 1..Len(s)}
\* A function on 1..n as a sequence value: TLC leaves a function constructor
\* unevaluated, and Append then drops what EXCEPT changed in it
AsSeq(f) == SubSeq(f, 1, Len(f))
Front(s) == SubSeq(s, 1, Len(s) - 1)
Max2(a, b) == IF a >= b THEN a ELSE b
Min2(a, b) == IF a <= b THEN a ELSE b

RECURSIVE SeqMax(_)
SeqMax(s) == IF Len(s) = 1 THEN s[1] ELSE Max2(s[1], SeqMax(Tail(s)))

\* ------------------------------------------------------------ type context

PrimTys == {"()", "i8", "i16", "i32", "i64", "usize"}
Tys == PrimTys \cup {"(i16,i32)", "(i8,(i16,i32),i64)", "*i32", "(*i32,)",
                     "*(*i32,)", "[i8;2]", "(i8,())", "[(i8,);2]", "(i8,)",
                     "S{i8,i16}", "*i8"}

\* ty.kind(tcx)
kind(ty) ==
    CASE ty = "(i16,i32)"          -> [k |-> "Tuple", elems |-> <<"i16", "i32">>]
      [] ty = "(i8,(i16,i32),i64)" -> [k |-> "Tuple", elems |-> <<"i8", "(i16,i32)", "i64">>]
      [] ty = "(*i32,)"            -> [k |-> "Tuple", elems |-> <<"*i32">>]
      [] ty = "(i8,())"            -> [k |-> "Tuple", elems |-> <<"i8", "()">>]
      [] ty = "(i8,)"              -> [k |-> "Tuple", elems |-> <<"i8">>]
      [] ty = "S{i8,i16}"          -> [k |-> "Adt", elems |-> <<"i8", "i16">>]
      [] ty = "[i8;2]"             -> [k |-> "Array", elems |-> <<"i8", "i8">>]
      [] ty = "[(i8,);2]"          -> [k |-> "Array", elems |-> <<"(i8,)", "(i8,)">>]
      [] ty = "*i32"               -> [k |-> "RawPtr", elems |-> <<"i32">>]
      [] ty = "*i8"                -> [k |-> "RawPtr", elems |-> <<"i8">>]
      [] ty = "*(*i32,)"           -> [k |-> "RawPtr", elems |-> <<"(*i32,)">>]
      [] OTHER                     -> [k |-> "Prim", elems |-> <<>>]

is_any_ptr(ty) == kind(ty).k = "RawPtr"
pointee_ty(ty) == kind(ty).elems[1]

\* BasicMemory::PTR_SIZE, in bytes
PTR_SIZE == 8

\* BasicMemory::ty_size, in bytes
RECURSIVE ty_size(_)
ty_size(ty) ==
    CASE ty = "()"    -> Some(0)
      [] ty = "i8"    -> Some(1)
      [] ty = "i16"   -> Some(2)
      [] ty = "i32"   -> Some(4)
      [] ty = "i64"   -> Some(8)
      [] ty = "usize" -> Some(PTR_SIZE)
      [] OTHER ->
           CASE kind(ty).k = "RawPtr" -> Some(PTR_SIZE)
             [] kind(ty).k = "Array" ->
                  LET elem == ty_size(kind(ty).elems[1])
                  IN  IF elem = None THEN None
                      ELSE Some(Unwrap(elem) * Len(kind(ty).elems))
             [] OTHER -> None

\* Number of nodes add_place creates for a local of type ty.
RECURSIVE NodeCount(_)
RECURSIVE NodeCountSeq(_)
NodeCountSeq(tys) ==
    IF tys = <<>> THEN 0 ELSE NodeCount(Head(tys)) + NodeCountSeq(Tail(tys))
NodeCount(ty) ==
    IF kind(ty).k \in {"Tuple", "Adt", "Array"}
    THEN 1 + NodeCountSeq(kind(ty).elems) ELSE 1

\* ------------------------------------------------------------------ memory

\* Run::new_uninit: bytes are TRUE (Init) or FALSE (Uninit); ref_stack, a
\* RangeMap of borrow stacks, is kept as one stack per byte
new_uninit(size) ==
    [bytes |-> AsSeq([i \in 1..size |-> FALSE]),
     ref_stack |-> AsSeq([i \in 1..size |-> <<>>])]

\* RunPointer { alloc_id, run_and_offset: RunAndOffset(run, offset), size }
RunPointer(alloc_id, run, offset, size) ==
    [alloc_id |-> alloc_id, run |-> run, offset |-> offset, size |-> size]

\* RunPointer::bytes_range, as the set of 1-based byte positions
bytes_range(rp) == (rp.offset + 1)..(rp.offset + rp.size)

\* BasicMemory::new
new_memory == [allocations |-> <<>>, pointers |-> <<>>]

\* BasicMemory::is_live
is_live(mem, alloc_id) == mem.allocations[alloc_id].live

\* A deallocate that toggles the flag instead of clearing it
deallocate_toggle(mem, alloc_id) ==
    [mem EXCEPT !.allocations[alloc_id].live = ~@]

\* BasicMemory::deallocate
deallocate(mem, alloc_id) == [mem EXCEPT !.allocations[alloc_id].live = FALSE]

\* BasicMemory::bytes (asserts the allocation is live: see bytes_ok)
bytes(mem, rp) ==
    AsSeq([i \in 1..rp.size |-> mem.allocations[rp.alloc_id].runs[rp.run].bytes[rp.offset + i]])

\* The assertion of BasicMemory::bytes and bytes_mut: "can't access dead bytes"
bytes_ok(mem, rp) == mem.allocations[rp.alloc_id].live

\* BasicMemory::bytes_mut followed by a write of the whole slice
write_bytes(mem, rp, new) ==
    [mem EXCEPT !.allocations[rp.alloc_id].runs[rp.run].bytes =
        AsSeq([i \in DOMAIN @ |-> IF i \in bytes_range(rp) THEN new[i - rp.offset] ELSE @[i]])]

\* A fill that writes the whole run the run pointer points into
fill_whole_run(mem, rp, val) ==
    [mem EXCEPT !.allocations[rp.alloc_id].runs[rp.run].bytes =
        AsSeq([i \in DOMAIN @ |-> val])]

\* BasicMemory::fill
fill(mem, rp, val) == write_bytes(mem, rp, AsSeq([i \in 1..rp.size |-> val]))

\* BasicMemory::copy
copy(mem, dst, src) == write_bytes(mem, dst, bytes(mem, src))

\* ----------------------------------------------------------- borrow stacks

\* struct Borrow, pushed unprotected by Run::add_borrow
Borrow(borrow_type, tag) ==
    [borrow_type |-> borrow_type, tag |-> tag, protected |-> FALSE]

\* stack.iter().position(|b| b.tag == tag), 1-based; 0 when there is none
position_of(stack, tag) ==
    IF \E i \in DOMAIN stack : stack[i].tag = tag
    THEN CHOOSE i \in DOMAIN stack :
            stack[i].tag = tag /\ \A j \in 1..(i - 1) : stack[j].tag # tag
    ELSE 0

\* stack.iter().position(|borrow| borrow.borrow_type == BorrowType::Shared)
first_shared(stack) ==
    IF \E i \in DOMAIN stack : stack[i].borrow_type = "Shared"
    THEN CHOOSE i \in DOMAIN stack :
            /\ stack[i].borrow_type = "Shared"
            /\ \A j \in 1..(i - 1) : stack[j].borrow_type # "Shared"
    ELSE 0

\* The stacks ref_stack.iter(offset, len) yields for a run pointer
stacks_of(mem, rp) ==
    {mem.allocations[rp.alloc_id].runs[rp.run].ref_stack[i] : i \in bytes_range(rp)}

\* ref_stack.iter_mut(offset, len) with f applied to every stack it yields
iter_mut(mem, rp, f(_)) ==
    [mem EXCEPT !.allocations[rp.alloc_id].runs[rp.run].ref_stack =
        AsSeq([i \in DOMAIN @ |-> IF i \in bytes_range(rp) THEN f(@[i]) ELSE @[i]])]

\* Run::add_borrow
add_borrow(mem, rp, borrow_type, tag) ==
    iter_mut(mem, rp, LAMBDA stack : Append(stack, Borrow(borrow_type, tag)))

\* stack.remove(i)
remove_at(stack, i) == SubSeq(stack, 1, i - 1) \o SubSeq(stack, i + 1, Len(stack))

\* Run::remove_borrow
remove_borrow(mem, rp, tag) ==
    iter_mut(mem, rp, LAMBDA stack :
        IF position_of(stack, tag) # 0 THEN remove_at(stack, position_of(stack, tag))
        ELSE stack)

\* The assertion of Run::remove_borrow: assert!(!removed.protected)
remove_borrow_ok(mem, rp, tag) ==
    \A stack \in stacks_of(mem, rp) :
        position_of(stack, tag) # 0 => ~stack[position_of(stack, tag)].protected

\* Run::protect
protect(mem, rp, tag) ==
    iter_mut(mem, rp, LAMBDA stack :
        IF position_of(stack, tag) # 0
        THEN [stack EXCEPT ![position_of(stack, tag)].protected = TRUE]
        ELSE stack)

\* The tags of the borrows of stack at the positions in idxs
tags_at(stack, idxs) == {stack[i].tag : i \in idxs \cap DOMAIN stack}

\* Run::above_first_shared and BasicMemory::above_first_shared: the sorted
\* Vec as the set of its elements
above_first_shared(mem, rp) ==
    UNION {IF first_shared(stack) # 0
           THEN tags_at(stack, first_shared(stack)..Len(stack)) ELSE {} :
           stack \in stacks_of(mem, rp)}

\* Run::below_first_shared
below_first_shared(mem, rp) ==
    UNION {IF first_shared(stack) # 0
           THEN tags_at(stack, 1..(first_shared(stack) - 1)) ELSE {} :
           stack \in stacks_of(mem, rp)}

\* remove_all_above that truncates above the tag's borrow and keeps it
remove_all_above_keep_tag(mem, rp, tag) ==
    iter_mut(mem, rp, LAMBDA stack :
        IF position_of(stack, tag) # 0 THEN SubSeq(stack, 1, position_of(stack, tag))
        ELSE stack)

\* Run::remove_all_above, its stacks: stack.truncate(index)
remove_all_above(mem, rp, tag) ==
    iter_mut(mem, rp, LAMBDA stack :
        IF position_of(stack, tag) # 0 THEN SubSeq(stack, 1, position_of(stack, tag) - 1)
        ELSE stack)

\* Run::remove_all_above, its result: the Vec as the set of its elements
\* (how often a tag is repeated depends on how the RangeMap cuts the range)
removed_above(mem, rp, tag) ==
    UNION {IF position_of(stack, tag) # 0
           THEN tags_at(stack, position_of(stack, tag)..Len(stack)) ELSE {} :
           stack \in stacks_of(mem, rp)}

\* Run::can_read_with and BasicMemory::can_read_with
can_read_with(mem, rp, tag) ==
    \A stack \in stacks_of(mem, rp) : position_of(stack, tag) # 0

\* stack_can_write_with that looks for the tag up to and including the
\* first shared borrow
stack_can_write_with_inclusive(stack, tag) ==
    /\ first_shared(stack) # 0 =>
          ~\E i \in first_shared(stack)..Len(stack) : stack[i].protected
    /\ \E i \in 1..(IF first_shared(stack) # 0 THEN first_shared(stack) ELSE Len(stack)) :
          stack[i].tag = tag

\* stack_can_write_with that does not look for protected borrows
stack_can_write_with_unprotected(stack, tag) ==
    \E i \in 1..(IF first_shared(stack) # 0 THEN first_shared(stack) - 1 ELSE Len(stack)) :
        stack[i].tag = tag

\* The body of the loop of Run::can_write_with: FALSE where it returns false
stack_can_write_with(stack, tag) ==
    LET tag_search_limit ==
            IF first_shared(stack) # 0 THEN first_shared(stack) - 1 ELSE Len(stack)
    IN  /\ first_shared(stack) # 0 =>
              ~\E i \in first_shared(stack)..Len(stack) : stack[i].protected
        /\ \E i \in 1..tag_search_limit : stack[i].tag = tag

\* Run::can_write_with and BasicMemory::can_write_with
can_write_with(mem, rp, tag) ==
    \A stack \in stacks_of(mem, rp) : stack_can_write_with(stack, tag)

\* HashMap::insert and HashMap::remove on the side table
map_insert(m, k, v) == [x \in DOMAIN m \cup {k} |-> IF x = k THEN v ELSE m[x]]
map_remove(m, k) == [x \in DOMAIN m \ {k} |-> m[x]]

\* BasicMemory::add_ref
add_ref(mem, rp, borrow_type, tag) ==
    [add_borrow(mem, rp, borrow_type, tag) EXCEPT !.pointers =
        IF tag \in DOMAIN @ THEN map_insert(@, tag, Append(@[tag], rp))
        ELSE map_insert(@, tag, <<rp>>)]

\* The loop of BasicMemory::remove_tag over the run pointers of the tag
RECURSIVE remove_borrows(_, _, _)
remove_borrows(mem, run_ptrs, tag) ==
    IF run_ptrs = <<>> THEN mem
    ELSE remove_borrows(remove_borrow(mem, Head(run_ptrs), tag), Tail(run_ptrs), tag)

\* Whether that loop meets no assertion of remove_borrow
RECURSIVE remove_borrows_ok(_, _, _)
remove_borrows_ok(mem, run_ptrs, tag) ==
    IF run_ptrs = <<>> THEN TRUE
    ELSE /\ remove_borrow_ok(mem, Head(run_ptrs), tag)
         /\ remove_borrows_ok(remove_borrow(mem, Head(run_ptrs), tag), Tail(run_ptrs), tag)

\* BasicMemory::remove_tag
remove_tag(mem, tag) ==
    IF tag \in DOMAIN mem.pointers
    THEN remove_borrows([mem EXCEPT !.pointers = map_remove(@, tag)],
                        mem.pointers[tag], tag)
    ELSE mem

remove_tag_ok(mem, tag) ==
    tag \in DOMAIN mem.pointers => remove_borrows_ok(mem, mem.pointers[tag], tag)

\* RangeExt::overlap on the byte ranges of two run pointers (both ends
\* compared inclusively)
range_overlap(a, b) == a.offset <= b.offset + b.size /\ b.offset <= a.offset + a.size

\* RunPointer::overlap
run_ptr_overlap(a, b) ==
    /\ a.alloc_id = b.alloc_id
    /\ a.run = b.run
    /\ range_overlap(a, b)

\* RangeExt::subtract, each range that is left as a run pointer made by
\* RunPointer::from_bytes_range
subtract(stored, rp) ==
    (IF stored.offset < rp.offset
     THEN <<RunPointer(stored.alloc_id, stored.run, stored.offset, rp.offset - stored.offset)>>
     ELSE <<>>)
    \o (IF rp.offset + rp.size < stored.offset + stored.size
        THEN <<RunPointer(stored.alloc_id, stored.run, rp.offset + rp.size,
                          stored.offset + stored.size - (rp.offset + rp.size))>>
        ELSE <<>>)

\* The loop of BasicMemory::derange: the run pointers kept for the tag
RECURSIVE deranged(_, _)
deranged(all_run_ptrs, rp) ==
    IF all_run_ptrs = <<>> THEN <<>>
    ELSE (IF run_ptr_overlap(Head(all_run_ptrs), rp) THEN subtract(Head(all_run_ptrs), rp)
          ELSE <<Head(all_run_ptrs)>>)
         \o deranged(Tail(all_run_ptrs), rp)

\* BasicMemory::derange
derange(mem, tag, rp) ==
    IF tag \in DOMAIN mem.pointers
    THEN IF deranged(mem.pointers[tag], rp) = <<>>
         THEN [mem EXCEPT !.pointers = map_remove(@, tag)]
         ELSE [mem EXCEPT !.pointers = map_insert(@, tag, deranged(mem.pointers[tag], rp))]
    ELSE mem

\* derange for every removed tag (the loop of remove_tags_above)
RECURSIVE derange_all(_, _, _)
derange_all(mem, removed, rp) ==
    IF removed = {} THEN mem
    ELSE LET edge == CHOOSE e \in removed : TRUE
         IN  derange_all(derange(mem, edge, rp), removed \ {edge}, rp)

\* BasicMemory::remove_tags_above, the memory it leaves
remove_tags_above(mem, tag, rp) ==
    derange_all(remove_all_above(mem, rp, tag), removed_above(mem, rp, tag), rp)

\* BasicMemory::remove_tags_above, its result all_gone, as a set
all_gone(mem, tag, rp) ==
    {edge \in removed_above(mem, rp, tag) :
        edge \notin DOMAIN remove_tags_above(mem, tag, rp).pointers}

\* BasicMemory::remove_tag_run_ptr, the memory it leaves
remove_tag_run_ptr(mem, tag, rp) == derange(remove_borrow(mem, rp, tag), tag, rp)

\* BasicMemory::remove_tag_run_ptr, its result
tag_gone(mem, tag, rp) == tag \notin DOMAIN remove_tag_run_ptr(mem, tag, rp).pointers

\* BasicMemory::mark_protected
mark_protected(mem, rp, tag) == protect(mem, rp, tag)

\* ------------------------------------------------------------- place graph

\* The PlaceTable as one value: the operations below are functions from a
\* table (and their arguments) to the table they leave behind.
PT == [frames |-> frames, index_candidates |-> index_candidates,
       places |-> places, edges |-> edges, memory |-> memory]

\* Local::RET
RET == 0

\* PlaceIndex::new(usize::MAX), the return destination of the fn0 frame
DummyDest == 0

\* ProjectionElem
TupleField(i) == [kind |-> "TupleField", idx |-> i]
Field(i) == [kind |-> "Field", idx |-> i]
ConstantIndex(i) == [kind |-> "ConstantIndex", idx |-> i]
Deref == [kind |-> "Deref", idx |-> 0]
Index(local) == [kind |-> "Index", idx |-> local]
is_deref(proj) == proj.kind = "Deref"

\* Literal: only Literal::Uint(_, UintTy::Usize) is told apart by the table
Usize(i) == [kind |-> "Usize", v |-> i]
Int8(i) == [kind |-> "I8", v |-> i]


\* The endpoints and weight of an edge
edge_src(e) == e[1]
edge_dst(t, e) == t.edges[e[1]][e[2]].dst
edge_proj(t, e) == t.edges[e[1]][e[2]].proj

\* places.edges_directed(pidx, Outgoing): edge ids, newest first
edges_out(t, pidx) ==
    [i \in 1..Len(t.edges[pidx]) |-> <<pidx, Len(t.edges[pidx]) + 1 - i>>]

\* places.edges_directed(pidx, Incoming): edge ids (a node has at most one
\* incoming edge that is not a deref, and only those are ever looked at)
RECURSIVE edges_in_from(_, _, _)
edges_in_from(t, pidx, src) ==
    IF src = 0 THEN <<>>
    ELSE SelectSeq(edges_out(t, src), LAMBDA e : edge_dst(t, e) = pidx)
         \o edges_in_from(t, pidx, src - 1)
edges_in(t, pidx) == edges_in_from(t, pidx, Len(t.edges))

\* Graph::add_edge
add_edge(es, src, dst, proj) ==
    [es EXCEPT ![src] = Append(@, [dst |-> dst, proj |-> proj])]

\* filter_map over a sequence of edge ids, keeping the non-deref ones
RECURSIVE NonDeref(_, _)
NonDeref(t, es) ==
    IF es = <<>> THEN <<>>
    ELSE (IF is_deref(edge_proj(t, Head(es))) THEN <<>> ELSE <<Head(es)>>)
         \o NonDeref(t, Tail(es))

\* PlaceTable::immediate_subfields
immediate_subfields(t, pidx) ==
    LET es == NonDeref(t, edges_out(t, pidx))
    IN  AsSeq([i \in 1..Len(es) |-> edge_dst(t, es[i])])

\* PlaceTable::immediate_superfields
immediate_superfields(t, pidx) ==
    LET es == NonDeref(t, edges_in(t, pidx))
    IN  AsSeq([i \in 1..Len(es) |-> edge_src(es[i])])

\* PlaceNode as add_place creates it
PlaceNode(ty, alloc_id, run_ptr) ==
    [ty |-> ty, alloc_id |-> alloc_id, dataflow |-> 0, moved |-> FALSE,
     run_ptr |-> run_ptr, val |-> None, offset |-> None]

\* child_run_ptr without the element's byte offset: every element is handed
\* the first element's bytes
child_run_ptr_no_offset(node, elem_ty, i) ==
    IF node.run_ptr # None
    THEN LET rp == Unwrap(node.run_ptr)
             child_size == Unwrap(ty_size(elem_ty))
         IN  Some(RunPointer(node.alloc_id, rp.run, rp.offset, child_size))
    ELSE None

\* The run pointer add_place hands to element i (0-based) of an array node
child_run_ptr(node, elem_ty, i) ==
    IF node.run_ptr # None
    THEN LET rp == Unwrap(node.run_ptr)
             child_size == Unwrap(ty_size(elem_ty))
         IN  Some(RunPointer(node.alloc_id, rp.run, rp.offset + i * child_size, child_size))
    ELSE None

\* PlaceTable::add_place on g = [places, edges, runs] (the graph and the
\* AllocationBuilder's runs); the node it returns is Len(g.places) + 1.
RECURSIVE add_place(_, _, _, _)
RECURSIVE add_children(_, _, _, _)
\* add_place that allocates a run for the leaves alone: an array gets none
add_place_leaf_runs(g, ty, alloc_id, run_ptr) ==
    LET pidx == Len(g.places) + 1
        g0 == [g EXCEPT !.edges = Append(@, <<>>)]
        g1 == IF run_ptr # None
              THEN [g0 EXCEPT !.places = Append(@, PlaceNode(ty, alloc_id, run_ptr))]
              ELSE IF ty_size(ty) # None /\ kind(ty).k # "Array"
              THEN [g0 EXCEPT
                      !.runs = Append(@, new_uninit(Unwrap(ty_size(ty)))),
                      !.places = Append(@, PlaceNode(ty, alloc_id,
                          Some(RunPointer(alloc_id, Len(g.runs) + 1, 0, Unwrap(ty_size(ty))))))]
              ELSE [g0 EXCEPT !.places = Append(@, PlaceNode(ty, alloc_id, None))]
    IN  IF kind(ty).k \in {"Tuple", "Array", "Adt"}
        THEN add_children(g1, pidx, alloc_id, 0)
        ELSE g1

add_place(g, ty, alloc_id, run_ptr) ==
    LET pidx == Len(g.places) + 1
        g0 == [g EXCEPT !.edges = Append(@, <<>>)]
        g1 == IF run_ptr # None
              THEN [g0 EXCEPT !.places = Append(@, PlaceNode(ty, alloc_id, run_ptr))]
              ELSE IF ty_size(ty) # None
              THEN \* alloc_builder.new_run(size)
                   [g0 EXCEPT
                      !.runs = Append(@, new_uninit(Unwrap(ty_size(ty)))),
                      !.places = Append(@, PlaceNode(ty, alloc_id,
                          Some(RunPointer(alloc_id, Len(g.runs) + 1, 0, Unwrap(ty_size(ty))))))]
              ELSE [g0 EXCEPT !.places = Append(@, PlaceNode(ty, alloc_id, None))]
    IN  IF kind(ty).k \in {"Tuple", "Array", "Adt"}
        THEN add_children(g1, pidx, alloc_id, 0)
        ELSE g1

\* The loops of add_place over a tuple's elems, an array's 0..len and a
\* struct's fields, from child i (0-based) on.
add_children(g, pidx, alloc_id, i) ==
    LET ty == g.places[pidx].ty
        elems == kind(ty).elems
    IN  IF i >= Len(elems) THEN g
        ELSE LET sub == Len(g.places) + 1
                 rp == IF kind(ty).k = "Array"
                       THEN child_run_ptr(g.places[pidx], elems[i + 1], i)
                       ELSE None
                 proj == CASE kind(ty).k = "Tuple" -> TupleField(i)
                           [] kind(ty).k = "Array" -> ConstantIndex(i)
                           [] kind(ty).k = "Adt"   -> Field(i)
                 g2 == add_place(g, elems[i + 1], alloc_id, rp)
                 g3 == [g2 EXCEPT !.edges = add_edge(@, pidx, sub, proj)]
             IN  add_children(g3, pidx, alloc_id, i + 1)

\* ------------------------------------------------------------------ frames

\* Frame::new (locals is the BiHashMap, as a set of <<local, place>> pairs)
new_frame(dest) == [locals |-> {}, locals_ordered |-> <<>>, return_destination |-> dest]

\* BinaryHeap::push: append, then sift the new element up (a max-heap
\* whose backing vector is what iter() walks)
RECURSIVE sift_up(_, _)
sift_up(data, pos) ==
    IF pos > 1 /\ data[pos] > data[pos \div 2]
    THEN sift_up([data EXCEPT ![pos] = data[pos \div 2], ![pos \div 2] = data[pos]],
                 pos \div 2)
    ELSE data
heap_push(data, x) == sift_up(Append(data, x), Len(data) + 1)

\* Frame::get_by_index
get_by_index(frame, pidx) == {l[1] : l \in {m \in frame.locals : m[2] = pidx}}

\* Frame::get_by_local
get_by_local(frame, local) == {l[2] : l \in {m \in frame.locals : m[1] = local}}

\* insert_no_overwrite(local, pidx).expect(..) of Frame::add_local
add_local_ok(frame, local, pidx) ==
    get_by_local(frame, local) = None /\ get_by_index(frame, pidx) = None

\* Frame::add_local
add_local(frame, local, pidx) ==
    [frame EXCEPT !.locals = @ \cup {<<local, pidx>>},
                  !.locals_ordered = heap_push(@, pidx)]

\* ------------------------------------------------------------- place table

\* PlaceTable::new
new_table == [frames |-> <<new_frame(DummyDest)>>, index_candidates |-> <<>>,
              places |-> <<>>, edges |-> <<>>, memory |-> new_memory]

\* PlaceTable::current_frame
current_frame(t) == t.frames[Len(t.frames)]

\* PlaceTable::place_count
place_count(t) == Len(t.places)

\* PlaceTable::allocate_local (memory.allocate_with_builder around add_place)
allocate_local(t, local, ty) ==
    LET alloc_id == Len(t.memory.allocations) + 1
        g == add_place([places |-> t.places, edges |-> t.edges, runs |-> <<>>],
                       ty, alloc_id, None)
        pidx == Len(t.places) + 1
    IN  [t EXCEPT !.places = g.places,
                  !.edges = g.edges,
                  !.memory.allocations = Append(@, [runs |-> g.runs, live |-> TRUE]),
                  !.frames[Len(t.frames)] = add_local(@, local, pidx)]

\* PlaceTable::known_val
known_val(t, pidx) == t.places[pidx].val

\* project_from_node that takes the first outgoing edge, whatever the
\* projection
project_from_node_first(t, pidx, proj) ==
    IF edges_out(t, pidx) = <<>> THEN None
    ELSE Some(edge_dst(t, edges_out(t, pidx)[1]))

\* PlaceTable::project_from_node; an Index(local) projection is first turned
\* into the ConstantIndex of the usize the local is known to hold. The local
\* is resolved as get_node resolves a local: in the current frame.
project_from_node(t, pidx, proj) ==
    LET p == IF proj.kind = "Index"
             THEN ConstantIndex(Unwrap(known_val(t,
                      Unwrap(get_by_local(current_frame(t), proj.idx)))).v)
             ELSE proj
        es == edges_out(t, pidx)
        hit == {i \in 1..Len(es) : edge_proj(t, es[i]) = p}
    IN  IF hit = {} THEN None
        ELSE Some(edge_dst(t, es[CHOOSE i \in hit : \A j \in hit : i <= j]))

\* The panic of project_from_node: "projection has a usize knownval"
project_ok(t, proj) ==
    proj.kind = "Index" =>
        /\ get_by_local(current_frame(t), proj.idx) # None
        /\ LET v == known_val(t, Unwrap(get_by_local(current_frame(t), proj.idx)))
           IN  v # None /\ Unwrap(v).kind = "Usize"

\* The projection loop of PlaceTable::get_node
RECURSIVE get_node_from(_, _, _)
get_node_from(t, node, projs) ==
    IF projs = <<>> THEN Some(node)
    ELSE LET next == project_from_node(t, node, Head(projs))
         IN  IF next = None THEN None
             ELSE get_node_from(t, Unwrap(next), Tail(projs))
\* get_node that looks the local up in every frame, topmost first
get_node_any_frame(t, place) ==
    LET holding == {i \in DOMAIN t.frames : get_by_local(t.frames[i], place.local) # None}
    IN  IF holding = {} THEN None
        ELSE get_node_from(t,
                Unwrap(get_by_local(t.frames[CHOOSE i \in holding : \A j \in holding : j <= i],
                                    place.local)),
                place.projection)

\* PlaceTable::get_node; place is [local, projection]
get_node(t, place) ==
    LET root == get_by_local(current_frame(t), place.local)
    IN  IF root = None THEN None
        ELSE get_node_from(t, Unwrap(root), place.projection)

\* get_node returns: its walk meets no Index projection on which
\* project_from_node panics
RECURSIVE get_node_from_ok(_, _, _)
get_node_from_ok(t, node, projs) ==
    IF projs = <<>> THEN TRUE
    ELSE IF ~project_ok(t, Head(projs)) THEN FALSE
    ELSE IF project_from_node(t, node, Head(projs)) = None THEN TRUE
    ELSE get_node_from_ok(t, Unwrap(project_from_node(t, node, Head(projs))), Tail(projs))
get_node_ok(t, place) ==
    IF get_by_local(current_frame(t), place.local) = None THEN TRUE
    ELSE get_node_from_ok(t, Unwrap(get_by_local(current_frame(t), place.local)),
                          place.projection)

\* to_place_index(..).expect("place exists") of the operations on a Place
place_exists(t, place) ==
    IF get_node_ok(t, place) THEN get_node(t, place) # None ELSE FALSE

\* Place::from_local, Place::RETURN_SLOT
from_local(local) == [local |-> local, projection |-> <<>>]
RETURN_SLOT == from_local(RET)

\* deallocate_local that also removes the local from the frame
deallocate_local_unregister(t, local) ==
    [t EXCEPT !.memory = deallocate(@,
                  t.places[Unwrap(get_by_local(current_frame(t), local))].alloc_id),
              !.frames[Len(t.frames)].locals = {l \in @ : l[1] # local}]

\* PlaceTable::deallocate_local
deallocate_local(t, local) ==
    LET pidx == Unwrap(get_node(t, from_local(local)))
    IN  [t EXCEPT !.memory = deallocate(@, t.places[pidx].alloc_id)]

\* The order in which update_transitive_subfields / visit_transitive_subfields
\* visit: a stack, popped from the end, to which a visited node's immediate
\* subfields are pushed when the visit says to continue. stop_at_run is the
\* visit of mark_place_init / mark_place_uninit, which stops at a node with
\* a run pointer.
RECURSIVE subfields_walk(_, _, _)
subfields_walk(t, to_visit, stop_at_run) ==
    IF to_visit = <<>> THEN <<>>
    ELSE LET node == to_visit[Len(to_visit)]
             cont == ~(stop_at_run /\ t.places[node].run_ptr # None)
             rest == Front(to_visit)
         IN  <<node>> \o subfields_walk(t,
                 IF cont THEN rest \o immediate_subfields(t, node) ELSE rest,
                 stop_at_run)

\* All transitive subfields of start, start included, in visiting order
transitive_subfields(t, start) == subfields_walk(t, <<start>>, FALSE)

\* The visiting order of update_transitive_superfields (start excluded)
RECURSIVE superfields_walk(_, _)
superfields_walk(t, to_visit) ==
    IF to_visit = <<>> THEN <<>>
    ELSE LET node == to_visit[Len(to_visit)]
         IN  <<node>> \o superfields_walk(t,
                 Front(to_visit) \o immediate_superfields(t, node))
transitive_superfields(t, start) ==
    superfields_walk(t, immediate_superfields(t, start))

\* The first closure of update_dataflow: every visited place takes new_flow
set_dataflow_all(t, order, new_flow) ==
    [t EXCEPT !.places = AsSeq([i \in DOMAIN @ |->
        IF i \in Range(order) THEN [@[i] EXCEPT !.dataflow = new_flow] ELSE @[i]])]

\* The second closure of update_dataflow, applied along the visiting order:
\* a place with subfields takes the max of their dataflow
RECURSIVE max_dataflow_up(_, _)
max_dataflow_up(t, order) ==
    IF order = <<>> THEN t
    ELSE LET place == Head(order)
             subs == immediate_subfields(t, place)
             t1 == IF subs = <<>> THEN t
                   ELSE [t EXCEPT !.places[place].dataflow =
                            SeqMax(AsSeq([i \in 1..Len(subs) |-> t.places[subs[i]].dataflow]))]
         IN  max_dataflow_up(t1, Tail(order))

\* update_dataflow that merges: a subfield keeps its dataflow when that is
\* the larger one
update_dataflow_merge(t, target, new_flow) ==
    LET flow == Min2(new_flow, 100)
        subs == Range(transitive_subfields(t, target))
        t1 == [t EXCEPT !.places = AsSeq([i \in DOMAIN @ |->
                  IF i \in subs THEN [@[i] EXCEPT !.dataflow = Max2(@, flow)] ELSE @[i]])]
    IN  max_dataflow_up(t1, transitive_superfields(t1, target))

\* PlaceTable::update_dataflow
update_dataflow(t, target, new_flow) ==
    LET flow == Min2(new_flow, 100)
        t1 == set_dataflow_all(t, transitive_subfields(t, target), flow)
    IN  max_dataflow_up(t1, transitive_superfields(t1, target))

\* The stored dataflow of a node (HasDataflow for Place)
dataflow(t, pidx) == t.places[pidx].dataflow

\* PlaceTable::is_place_moved
is_place_moved(t, pidx) == t.places[pidx].moved

\* all_moved_up with "any" for "all": a place is flagged when one of its
\* subfields is
RECURSIVE all_moved_up_any(_, _)
all_moved_up_any(t, order) ==
    IF order = <<>> THEN t
    ELSE all_moved_up_any(
             [t EXCEPT !.places[Head(order)].moved =
                 \E sub \in Range(immediate_subfields(t, Head(order))) : t.places[sub].moved],
             Tail(order))

\* The second closure of mark_place_moved along the visiting order
RECURSIVE all_moved_up(_, _)
all_moved_up(t, order) ==
    IF order = <<>> THEN t
    ELSE LET place == Head(order)
             subs == immediate_subfields(t, place)
             t1 == [t EXCEPT !.places[place].moved =
                       \A i \in 1..Len(subs) : t.places[subs[i]].moved]
         IN  all_moved_up(t1, Tail(order))

\* mark_place_moved that flags the place alone, not its subfields
mark_place_moved_shallow(t, pidx) ==
    [t EXCEPT !.places[pidx].moved = TRUE]

\* PlaceTable::mark_place_moved
mark_place_moved(t, pidx) ==
    LET subs == transitive_subfields(t, pidx)
        t1 == [t EXCEPT !.places = AsSeq([i \in DOMAIN @ |->
                  IF i \in Range(subs) THEN [@[i] EXCEPT !.moved = TRUE] ELSE @[i]])]
    IN  all_moved_up(t1, transitive_superfields(t1, pidx))

\* PlaceTable::ref_edge: the first outgoing edge of a pointer, if any
ref_edge(t, reference) ==
    IF edges_out(t, reference) = <<>> THEN None ELSE Some(Head(edges_out(t, reference)))

\* PlaceTable::pointee
pointee(t, reference) ==
    IF edges_out(t, reference) = <<>> THEN None
    ELSE Some(edge_dst(t, Head(edges_out(t, reference))))

\* Graph::remove_edge: the other edges keep their endpoints, weights and
\* their order in every node's edge list
remove_edge(t, e) ==
    [t EXCEPT !.edges[e[1]] = SubSeq(@, 1, e[2] - 1) \o SubSeq(@, e[2] + 1, Len(@))]

\* The closure of mark_place_init / mark_place_uninit over the visited
\* places: the bytes of every run pointer met are filled with val
RECURSIVE fill_runs(_, _, _)
fill_runs(t, order, val) ==
    IF order = <<>> THEN t
    ELSE LET node == t.places[Head(order)]
             t1 == IF node.run_ptr # None
                   THEN [t EXCEPT !.memory = fill(@, Unwrap(node.run_ptr), val)]
                   ELSE t
         IN  fill_runs(t1, Tail(order), val)

\* mark_place_uninit that does not walk into subfields
mark_place_uninit_shallow(t, pidx) ==
    LET t1 == IF is_any_ptr(t.places[pidx].ty) /\ ref_edge(t, pidx) # None
              THEN remove_edge(t, Unwrap(ref_edge(t, pidx)))
              ELSE t
    IN  fill_runs(t1, <<pidx>>, FALSE)

\* PlaceTable::mark_place_uninit
mark_place_uninit(t, pidx) ==
    LET t1 == IF is_any_ptr(t.places[pidx].ty) /\ ref_edge(t, pidx) # None
              THEN remove_edge(t, Unwrap(ref_edge(t, pidx)))
              ELSE t
    IN  fill_runs(t1, subfields_walk(t1, <<pidx>>, TRUE), FALSE)

\* PlaceTable::mark_place_init
mark_place_init(t, pidx) ==
    fill_runs(t, subfields_walk(t, <<pidx>>, TRUE), TRUE)

\* bytes_mut's assertion inside mark_place_init / mark_place_uninit: every
\* run pointer the walk meets must belong to a live allocation
mark_ok(t, pidx) ==
    \A n \in Range(subfields_walk(t, <<pidx>>, TRUE)) :
        t.places[n].run_ptr # None => bytes_ok(t.memory, Unwrap(t.places[n].run_ptr))

\* PlaceTable::is_place_live, for a place index
is_place_live(t, pidx) == is_live(t.memory, t.places[pidx].alloc_id)

\* PlaceTable::is_place_live of a Place or a Local: false when it does not
\* resolve
is_place_live_at(t, place) ==
    IF get_node(t, place) = None THEN FALSE
    ELSE is_place_live(t, Unwrap(get_node(t, place)))

\* is_place_init that does not ask whether the place is live
RECURSIVE is_place_init_bytes(_, _)
is_place_init_bytes(t, pidx) ==
    IF t.places[pidx].run_ptr # None
    THEN \A i \in 1..Unwrap(t.places[pidx].run_ptr).size :
             bytes(t.memory, Unwrap(t.places[pidx].run_ptr))[i]
    ELSE \A sub \in Range(immediate_subfields(t, pidx)) : is_place_init_bytes(t, sub)

\* PlaceTable::is_place_init, for a place index
RECURSIVE is_place_init(_, _)
is_place_init(t, pidx) ==
    IF ~is_place_live(t, pidx) THEN FALSE
    ELSE LET node == t.places[pidx]
         IN  IF node.run_ptr # None
             THEN \A i \in 1..Unwrap(node.run_ptr).size :
                      bytes(t.memory, Unwrap(node.run_ptr))[i]
             ELSE \A sub \in Range(immediate_subfields(t, pidx)) : is_place_init(t, sub)

\* PlaceTable::is_place_init of a Place or a Local
is_place_init_at(t, place) ==
    IF get_node(t, place) = None THEN FALSE
    ELSE is_place_init(t, Unwrap(get_node(t, place)))

\* overlap that looks one way only: whether b lies under a
overlap_one_way(t, a, b) ==
    IF a = b THEN TRUE
    ELSE IF t.places[a].alloc_id # t.places[b].alloc_id THEN FALSE
    ELSE \E i \in 1..Len(transitive_subfields(t, a)) : transitive_subfields(t, a)[i] = b

\* overlap over the immediate subfields only, not the transitive ones
overlap_shallow(t, a, b) ==
    IF a = b THEN TRUE
    ELSE IF t.places[a].alloc_id # t.places[b].alloc_id THEN FALSE
    ELSE LET a_sub == <<a>> \o immediate_subfields(t, a)
             b_sub == <<b>> \o immediate_subfields(t, b)
         IN  \E i \in 1..Len(a_sub) : \E j \in 1..Len(b_sub) : a_sub[i] = b_sub[j]

\* PlaceTable::overlap
overlap(t, a, b) ==
    IF a = b THEN TRUE
    ELSE IF t.places[a].alloc_id # t.places[b].alloc_id THEN FALSE
    ELSE LET a_sub == transitive_subfields(t, a)
             b_sub == transitive_subfields(t, b)
         IN  \E i \in 1..Len(a_sub) : \E j \in 1..Len(b_sub) : a_sub[i] = b_sub[j]

\* Removal of the first occurrence of x from a vector (position + remove)
remove_first(s, x) ==
    IF x \notin Range(s) THEN s
    ELSE LET k == CHOOSE i \in 1..Len(s) : s[i] = x /\ \A j \in 1..(i - 1) : s[j] # x
         IN  SubSeq(s, 1, k - 1) \o SubSeq(s, k + 1, Len(s))

\* PlaceTable::assign_literal; val is an Option<Literal>
assign_literal(t, p, val) ==
    LET local == get_by_index(current_frame(t), p)
        old == known_val(t, p)
        ic1 == IF local # None /\ old # None /\ Unwrap(old).kind = "Usize"
                  /\ Unwrap(old).v \in DOMAIN t.index_candidates
               THEN [t.index_candidates EXCEPT ![Unwrap(old).v] =
                        remove_first(@, Unwrap(local))]
               ELSE t.index_candidates
        ic2 == IF local # None /\ val # None /\ Unwrap(val).kind = "Usize"
               THEN LET i == Unwrap(val).v
                        cur == IF i \in DOMAIN ic1 THEN ic1[i] ELSE <<>>
                    IN  [k \in DOMAIN ic1 \cup {i} |->
                            IF k = i THEN Append(cur, Unwrap(local)) ELSE ic1[k]]
               ELSE ic1
        t1 == [t EXCEPT !.index_candidates = ic2]
        cleared == Range(transitive_subfields(t, p)) \cup Range(transitive_superfields(t, p))
    IN  IF val # None
        THEN [t1 EXCEPT !.places[p].val = val]
        ELSE [t1 EXCEPT !.places = AsSeq([i \in DOMAIN @ |->
                 IF i \in cleared THEN [@[i] EXCEPT !.val = None] ELSE @[i]])]

\* PlaceTable::offseted
offseted(t, p) == t.places[p].offset \notin {None, Some(0)}

\* PlaceTable::get_offset
get_offset(t, p) == t.places[p].offset

\* PlaceTable::has_offset_roundtripped
has_offset_roundtripped(t, p) == t.places[p].offset = Some(0)

\* The assert_eq on the pointee type in set_ref (and the pointer assertions)
set_ref_ok(t, reference, ptee) ==
    /\ is_any_ptr(t.places[reference].ty)
    /\ pointee_ty(t.places[reference].ty) = t.places[ptee].ty

\* set_ref that keeps the old reference edge beside the new one
set_ref_keep_old(t, reference, ptee) ==
    LET t2 == [t EXCEPT !.places[reference].offset = None]
        t3 == update_dataflow(t2, reference, t2.places[ptee].dataflow)
    IN  [t3 EXCEPT !.edges = add_edge(@, reference, ptee, Deref)]

\* set_ref that writes the pointee's dataflow into the reference alone
set_ref_own_dataflow(t, reference, ptee) ==
    LET t1 == IF ref_edge(t, reference) # None
              THEN remove_edge(t, Unwrap(ref_edge(t, reference)))
              ELSE t
        t2 == [t1 EXCEPT !.places[reference].offset = None,
                         !.places[reference].dataflow = t1.places[ptee].dataflow]
    IN  [t2 EXCEPT !.edges = add_edge(@, reference, ptee, Deref)]

\* PlaceTable::set_ref
set_ref(t, reference, ptee) ==
    LET t1 == IF ref_edge(t, reference) # None
              THEN remove_edge(t, Unwrap(ref_edge(t, reference)))
              ELSE t
        t2 == [t1 EXCEPT !.places[reference].offset = None]
        t3 == update_dataflow(t2, reference, t2.places[ptee].dataflow)
    IN  [t3 EXCEPT !.edges = add_edge(@, reference, ptee, Deref)]

\* The projs of copy_place: the weights of dst's non-deref outgoing edges
non_deref_projs(t, pidx) ==
    LET es == NonDeref(t, edges_out(t, pidx))
    IN  AsSeq([i \in 1..Len(es) |-> edge_proj(t, es[i])])

\* The steps of copy_place on dst # src, in the order of the code: the
\* dataflow and the literal of src go to dst,
copy_dataflow(t, dst, src) == update_dataflow(t, dst, t.places[src].dataflow)
copy_literal(t, dst, src) == assign_literal(t, dst, t.places[src].val)
\* the bytes of src's run go to dst's run,
\* copy_bytes that leaves the destination's bytes as they are
copy_bytes_skip(t, dst, src) == t
copy_bytes(t, dst, src) ==
    IF t.places[src].run_ptr # None
    THEN [t EXCEPT !.memory = copy(@, Unwrap(t.places[dst].run_ptr),
                                      Unwrap(t.places[src].run_ptr))]
    ELSE t
\* a pointer dst is pointed at src's pointee, if src has one,
copy_pointee(t, dst, src) ==
    IF is_any_ptr(t.places[dst].ty) /\ pointee(t, src) # None
    THEN set_ref(t, dst, Unwrap(pointee(t, src)))
    ELSE t
\* and takes src's offset
copy_offset(t, dst, src) ==
    IF is_any_ptr(t.places[dst].ty)
    THEN [t EXCEPT !.places[dst].offset = t.places[src].offset]
    ELSE t

\* PlaceTable::copy_place, and its loop over projs
RECURSIVE copy_place(_, _, _)
RECURSIVE copy_projs(_, _, _, _)
copy_fields(t, dst, src) == copy_projs(t, dst, src, non_deref_projs(t, dst))
copy_place(t, dst, src) ==
    IF dst = src THEN t
    ELSE copy_fields(
             copy_offset(
                 copy_pointee(
                     copy_bytes(
                         copy_literal(copy_dataflow(t, dst, src), dst, src),
                         dst, src),
                     dst, src),
                 dst, src),
             dst, src)

copy_projs(t, dst, src, projs) ==
    IF projs = <<>> THEN t
    ELSE copy_projs(copy_place(t,
                               Unwrap(project_from_node(t, dst, Head(projs))),
                               Unwrap(project_from_node(t, src, Head(projs)))),
                    dst, src, Tail(projs))

\* copy_place_ok without the assertion of bytes_mut on the destination
copy_place_ok_src_only(t, dst, src) ==
    dst # src =>
        /\ t.places[dst].ty = t.places[src].ty
        /\ (\E n \in Range(transitive_subfields(t, src)) : t.places[n].run_ptr # None)
              => is_place_live(t, src)

\* The assertions copy_place can fail: assert_eq on the types, and the
\* liveness of both allocations when bytes are copied
copy_place_ok(t, dst, src) ==
    dst # src =>
        /\ t.places[dst].ty = t.places[src].ty
        /\ (\E n \in Range(transitive_subfields(t, src)) : t.places[n].run_ptr # None)
              => (is_place_live(t, dst) /\ is_place_live(t, src))

\* A Body is [return_ty, args]: args_decl_iter yields the locals 1..n with
\* the declared types.

\* PlaceTable::enter_fn0, and its loop over the argument declarations
RECURSIVE enter_fn0_args(_, _, _)
enter_fn0_args(t, body, i) ==
    IF i > Len(body.args) THEN t
    ELSE LET pidx == Len(t.places) + 1
             t1 == allocate_local(t, i, body.args[i])
         IN  enter_fn0_args(update_dataflow(t1, pidx, 5), body, i + 1)
enter_fn0(t, body) ==
    enter_fn0_args(allocate_local(t, RET, body.return_ty), body, 1)

\* Operand, and the ArgOperand enter_fn resolves it to before the frame switch
Copy(place) == [kind |-> "Copy", place |-> place, lit |-> Int8(0)]
Move(place) == [kind |-> "Move", place |-> place, lit |-> Int8(0)]
Constant(lit) == [kind |-> "Constant", place |-> RETURN_SLOT, lit |-> lit]
ArgOperand(t, op) ==
    [kind |-> op.kind,
     pidx |-> IF op.kind = "Constant" THEN 0 ELSE Unwrap(get_node(t, op.place)),
     lit |-> op.lit]

\* The body of the loop of enter_fn for one argument: pidx is the place
\* allocate_local has just made for it
populate_arg(t, pidx, arg) ==
    IF arg.kind \in {"Copy", "Move"}
    THEN copy_place(t, pidx, arg.pidx)
    ELSE assign_literal(t, pidx, Some(arg.lit))
invalidate_moved(t, arg) ==
    IF arg.kind = "Move"
    THEN mark_place_moved(
             [t EXCEPT !.memory = deallocate(@, t.places[arg.pidx].alloc_id)],
             arg.pidx)
    ELSE t

\* The loop of enter_fn over args_decl_iter().zip(args), from argument i on
RECURSIVE enter_fn_args(_, _, _, _)
enter_fn_args(t, body, args, i) ==
    IF i > Min2(Len(body.args), Len(args)) THEN t
    ELSE enter_fn_args(
             invalidate_moved(
                 populate_arg(allocate_local(t, i, body.args[i]), Len(t.places) + 1, args[i]),
                 args[i]),
             body, args, i + 1)

\* The frame switch of enter_fn
push_frame(t, dest) ==
    [t EXCEPT !.frames = Append(@, new_frame(dest)), !.index_candidates = <<>>]

\* enter_fn once the operands (args) and the return destination (dest) are
\* place indices
enter_fn_at(t, body, args, dest) ==
    enter_fn_args(
        allocate_local(push_frame(assign_literal(t, dest, None), dest), RET, body.return_ty),
        body, args, 1)

\* PlaceTable::enter_fn; operands is a sequence of Operand, return_dest a Place
enter_fn(t, body, operands, return_dest) ==
    enter_fn_at(t, body,
                AsSeq([i \in 1..Len(operands) |-> ArgOperand(t, operands[i])]),
                Unwrap(get_node(t, return_dest)))

\* exit_fn that leaves the allocations of the popped frame as they are
exit_fn_keep_locals(t) ==
    copy_place([t EXCEPT !.frames = Front(@), !.index_candidates = <<>>],
               current_frame(t).return_destination,
               Unwrap(get_node(t, RETURN_SLOT)))

\* The frame switch of exit_fn without the invalidation of the cache
pop_frame_keep_cache(t) == [t EXCEPT !.frames = Front(@)]

\* The frame switch of exit_fn
pop_frame(t) == [t EXCEPT !.frames = Front(@), !.index_candidates = <<>>]

\* The last loop of exit_fn: the allocation of every local of the popped
\* frame is deallocated
deallocate_locals(t, old_frame) ==
    [t EXCEPT !.memory.allocations = AsSeq([a \in DOMAIN @ |->
        IF \E l \in old_frame.locals : t.places[l[2]].alloc_id = a
        THEN [@[a] EXCEPT !.live = FALSE] ELSE @[a]])]

\* PlaceTable::exit_fn
exit_fn(t) ==
    deallocate_locals(
        copy_place(pop_frame(t),
                   current_frame(t).return_destination,
                   Unwrap(get_node(t, RETURN_SLOT))),
        current_frame(t))

\* The last loop of exit_fn that stops after its first deallocation
deallocate_in_order_once(t, order) ==
    IF order = <<>> THEN t
    ELSE [t EXCEPT !.memory = deallocate(@, t.places[Head(order)].alloc_id)]

\* The last loop of exit_fn, visiting old_frame.locals.right_values() in the
\* order the hash map yields them
RECURSIVE deallocate_in_order(_, _)
deallocate_in_order(t, order) ==
    IF order = <<>> THEN t
    ELSE deallocate_in_order(
             [t EXCEPT !.memory = deallocate(@, t.places[Head(order)].alloc_id)],
             Tail(order))

\* PlaceTable::exit_fn when the hash map of the popped frame's locals
\* yields its places in the given order
exit_fn_in_order(t, order) ==
    deallocate_in_order(
        copy_place(pop_frame(t),
                   current_frame(t).return_destination,
                   Unwrap(get_node(t, RETURN_SLOT))),
        order)

\* What exit_fn needs to return normally: a callee frame with a return
\* place, a caller frame below it, and a copy that passes its assertions
exit_fn_ok(t) ==
    /\ Len(t.frames) >= 2
    /\ get_node(t, RETURN_SLOT) # None
    /\ copy_place_ok(t, current_frame(t).return_destination,
                     Unwrap(get_node(t, RETURN_SLOT)))

\* isize, as two's complement integers of IsizeBits bits
Isize == -(2 ^ (IsizeBits - 1))..(2 ^ (IsizeBits - 1) - 1)

\* isize::wrapping_add
wrapping_add(a, b) ==
    ((a + b + 2 ^ IsizeBits + 2 ^ (IsizeBits - 1)) % 2 ^ IsizeBits) - 2 ^ (IsizeBits - 1)

\* offset_ptr that accumulates nothing: the offset is the last one given
offset_ptr_overwrite(t, p, offset) ==
    [t EXCEPT !.places[p].offset = Some(offset)]

\* PlaceTable::offset_ptr
offset_ptr(t, p, offset) ==
    [t EXCEPT !.places[p].offset =
        IF @ = None THEN Some(offset) ELSE Some(wrapping_add(offset, Unwrap(@)))]

\* locals_with_val that takes the cache's word for it
locals_with_val_cached(t, val) ==
    IF val \in DOMAIN t.index_candidates THEN t.index_candidates[val] ELSE <<>>

\* PlaceTable::locals_with_val
locals_with_val(t, val) ==
    IF val \in DOMAIN t.index_candidates
    THEN SelectSeq(t.index_candidates[val], LAMBDA local :
            LET p == get_node(t, from_local(local))
            IN  /\ p # None
                /\ is_place_init(t, Unwrap(p))
                /\ ~is_place_moved(t, Unwrap(p))
                /\ known_val(t, Unwrap(p)) = Some(Usize(val)))
    ELSE <<>>

\* The filter of ProjectionIter::new on the root's outgoing edges
RECURSIVE root_filter(_, _)
root_filter(t, es) ==
    IF es = <<>> THEN <<>>
    ELSE LET proj == edge_proj(t, Head(es))
             skip == \/ proj.kind = "ConstantIndex"
                        /\ locals_with_val(t, proj.idx) = <<>>
                     \/ is_deref(proj) /\ offseted(t, edge_src(Head(es)))
         IN  (IF skip THEN <<>> ELSE <<<<Head(es), 1>>>>) \o root_filter(t, Tail(es))

\* next_filter that lets deref edges through
RECURSIVE next_filter_follow_deref(_, _, _)
next_filter_follow_deref(t, es, depth) ==
    IF es = <<>> THEN <<>>
    ELSE LET proj == edge_proj(t, Head(es))
             skip == proj.kind = "ConstantIndex" /\ locals_with_val(t, proj.idx) = <<>>
         IN  (IF skip THEN <<>> ELSE <<<<Head(es), depth + 1>>>>)
             \o next_filter_follow_deref(t, Tail(es), depth)

\* The filter of ProjectionIter::next on the outgoing edges of a visited node
RECURSIVE next_filter(_, _, _)
next_filter(t, es, depth) ==
    IF es = <<>> THEN <<>>
    ELSE LET proj == edge_proj(t, Head(es))
             skip == \/ is_deref(proj)
                     \/ proj.kind = "ConstantIndex"
                        /\ locals_with_val(t, proj.idx) = <<>>
         IN  (IF skip THEN <<>> ELSE <<<<Head(es), depth + 1>>>>)
             \o next_filter(t, Tail(es), depth)

\* iter_next that takes to_visit from the front: a queue, not a stack
RECURSIVE iter_next_fifo(_, _, _, _)
iter_next_fifo(t, root, to_visit, path) ==
    IF to_visit = <<>> THEN <<>>
    ELSE LET edge == to_visit[1][1]
             depth == to_visit[1][2]
             target == edge_dst(t, edge)
             path1 == Append(SubSeq(path, 1, depth - 1), edge)
             to_visit1 == Tail(to_visit) \o next_filter(t, edges_out(t, target), depth)
         IN  <<[source |-> root, path |-> path1]>>
             \o iter_next_fifo(t, root, to_visit1, path1)

\* ProjectionIter::next once the root has been yielded: the PlacePaths
\* still to come, given the stack to_visit and the current path
RECURSIVE iter_next(_, _, _, _)
iter_next(t, root, to_visit, path) ==
    IF to_visit = <<>> THEN <<>>
    ELSE LET edge == to_visit[Len(to_visit)][1]
             depth == to_visit[Len(to_visit)][2]
             target == edge_dst(t, edge)
             path1 == Append(SubSeq(path, 1, depth - 1), edge)
             to_visit1 == Front(to_visit) \o next_filter(t, edges_out(t, target), depth)
         IN  <<[source |-> root, path |-> path1]>> \o iter_next(t, root, to_visit1, path1)

\* PlaceTable::reachable_from_node: everything the ProjectionIter yields
reachable_from_node(t, pidx) ==
    <<[source |-> pidx, path |-> <<>>]>>
    \o iter_next(t, pidx, root_filter(t, edges_out(t, pidx)), <<>>)

\* PlaceTable::reachable_nodes: flat_map over locals_ordered.iter()
RECURSIVE flat_reachable(_, _)
flat_reachable(t, roots) ==
    IF roots = <<>> THEN <<>>
    ELSE reachable_from_node(t, Head(roots)) \o flat_reachable(t, Tail(roots))
reachable_nodes(t) == flat_reachable(t, current_frame(t).locals_ordered)

\* PlacePath::target_index
target_index(t, ppath) ==
    IF ppath.path = <<>> THEN ppath.source
    ELSE edge_dst(t, ppath.path[Len(ppath.path)])

\* PlacePath::projections
projections(t, ppath) == AsSeq([i \in 1..Len(ppath.path) |-> edge_proj(t, ppath.path[i])])

\* locals_with_val(offset)[0] and get_by_index(source).unwrap() of to_place
to_place_ok(t, ppath) ==
    /\ get_by_index(current_frame(t), ppath.source) # None
    /\ \A i \in DOMAIN ppath.path :
          edge_proj(t, ppath.path[i]).kind = "ConstantIndex" =>
              locals_with_val(t, edge_proj(t, ppath.path[i]).idx) # <<>>

\* PlacePath::to_place
to_place(t, ppath) ==
    [local |-> Unwrap(get_by_index(current_frame(t), ppath.source)),
     projection |-> AsSeq([i \in DOMAIN ppath.path |->
        IF edge_proj(t, ppath.path[i]).kind = "ConstantIndex"
        THEN Index(locals_with_val(t, edge_proj(t, ppath.path[i]).idx)[1])
        ELSE edge_proj(t, ppath.path[i])])]

\* PlacePath::is_return_proj
is_return_proj(t, ppath) == get_by_index(current_frame(t), ppath.source) = Some(RET)

\* ---------------------------------------------------------- place selector

\* PlaceTable::get_dataflow: a pointer with a pointee answers for its pointee
RECURSIVE get_dataflow(_, _)
get_dataflow(t, pidx) ==
    IF is_any_ptr(t.places[pidx].ty) /\ project_from_node(t, pidx, Deref) # None
    THEN get_dataflow(t, Unwrap(project_from_node(t, pidx, Deref)))
    ELSE t.places[pidx].dataflow

\* PlaceTable::return_dest_stack: frames.iter().skip(1)
return_dest_stack(t) ==
    AsSeq([i \in 1..(Len(t.frames) - 1) |-> t.frames[i + 1].return_destination])

\* PlaceSelector and its constructors
PlaceSelector(usage, allow_uninit) ==
    [tys |-> <<>>, exclusions |-> <<>>, allow_uninit |-> allow_uninit, usage |-> usage]
for_pointee == PlaceSelector("Pointee", TRUE)
for_operand == PlaceSelector("Operand", FALSE)
for_argument == PlaceSelector("Argument", FALSE)
for_lhs == PlaceSelector("LHS", TRUE)
for_known_val == PlaceSelector("KnownVal", FALSE)
of_ty(sel, ty) == [sel EXCEPT !.tys = Append(@, ty)]
except(sel, exclude) == [sel EXCEPT !.exclusions = Append(@, exclude)]

RET_LHS_WEIGH_FACTOR == 2
UNINIT_WEIGHT_FACTOR == 2
DEREF_WEIGHT_FACTOR == 2
LIT_ARG_WEIGHT_FACTOR == 2
PTR_WEIGHT_FACTOR == 10

\* expect("excluded place exists") of into_iter_path
into_iter_path_ok(sel, t) ==
    \A i \in DOMAIN sel.exclusions : get_node(t, sel.exclusions[i]) # None

\* exclusion_indicies of into_iter_path
exclusion_indicies(sel, t) ==
    AsSeq([i \in DOMAIN sel.exclusions |-> Unwrap(get_node(t, sel.exclusions[i]))])
    \o return_dest_stack(t)

\* The closure of into_iter_path with not_excluded left out
path_filter_no_exclusion(sel, t, excl, ppath) ==
    /\ is_place_live(t, target_index(t, ppath))
    /\ sel.tys # <<>> => t.places[target_index(t, ppath)].ty \in Range(sel.tys)
    /\ ~sel.allow_uninit => is_place_init(t, target_index(t, ppath))
    /\ sel.usage = "KnownVal" => t.places[target_index(t, ppath)].val # None

\* The closure into_iter_path filters reachable_nodes with
path_filter(sel, t, excl, ppath) ==
    /\ is_place_live(t, target_index(t, ppath))
    /\ sel.tys # <<>> => t.places[target_index(t, ppath)].ty \in Range(sel.tys)
    /\ ~\E i \in DOMAIN excl : overlap(t, target_index(t, ppath), excl[i])
    /\ ~sel.allow_uninit => is_place_init(t, target_index(t, ppath))
    /\ sel.usage = "KnownVal" => t.places[target_index(t, ppath)].val # None

\* PlaceSelector::into_iter_path
into_iter_path(sel, t) ==
    SelectSeq(reachable_nodes(t),
              LAMBDA ppath : path_filter(sel, t, exclusion_indicies(sel, t), ppath))

\* Ty::contains(|ty| ty.is_any_ptr()): the place is pointer-typed
contains_ptr(ty) == is_any_ptr(ty)

\* base_weight that divides by the dataflow before it scales by 1000
base_weight_divide_first(usage, t, ppath, place) ==
    CASE usage = "LHS" ->
           (((IF ~is_place_init(t, place) THEN UNINIT_WEIGHT_FACTOR ELSE 1)
             * (IF is_return_proj(t, ppath) THEN RET_LHS_WEIGH_FACTOR ELSE 1))
            \div Max2(get_dataflow(t, place), 1)) * 1000
      [] usage = "Pointee" -> 1
      [] OTHER -> get_dataflow(t, place)

\* base_weight without the factor for a known literal
base_weight_no_literal(usage, t, ppath, place) ==
    CASE usage = "Argument" ->
           get_dataflow(t, place)
           * (IF contains_ptr(t.places[place].ty) THEN PTR_WEIGHT_FACTOR ELSE 1)
      [] usage = "Pointee" -> 1
      [] OTHER -> get_dataflow(t, place)

\* The weight into_weighted gives a path before the deref factor
base_weight(usage, t, ppath, place) ==
    CASE usage = "Argument" ->
           get_dataflow(t, place)
           * (IF contains_ptr(t.places[place].ty) THEN PTR_WEIGHT_FACTOR ELSE 1)
           * (IF t.places[place].val # None THEN LIT_ARG_WEIGHT_FACTOR ELSE 1)
      [] usage = "LHS" ->
           ((IF ~is_place_init(t, place) THEN UNINIT_WEIGHT_FACTOR ELSE 1)
            * (IF is_return_proj(t, ppath) THEN RET_LHS_WEIGH_FACTOR ELSE 1)
            * 1000) \div Max2(get_dataflow(t, place), 1)
      [] usage = "Operand" -> get_dataflow(t, place)
      [] usage = "Pointee" -> 1
      [] usage = "KnownVal" -> get_dataflow(t, place)

\* weight without the factor for a dereference
weight_no_deref(usage, t, ppath) ==
    base_weight(usage, t, ppath, target_index(t, ppath))

\* The weight into_weighted gives a path
weight(usage, t, ppath) ==
    base_weight(usage, t, ppath, target_index(t, ppath))
    * (IF \E i \in DOMAIN ppath.path : is_deref(edge_proj(t, ppath.path[i]))
       THEN DEREF_WEIGHT_FACTOR ELSE 1)

weights(usage, t, ppaths) ==
    AsSeq([i \in DOMAIN ppaths |-> weight(usage, t, ppaths[i])])

RECURSIVE SeqSum(_)
SeqSum(s) == IF s = <<>> THEN 0 ELSE Head(s) + SeqSum(Tail(s))

\* WeightedIndex::new(weights).ok(): no index over no weights or over
\* weights that sum to zero
WeightedIndex_new(ws) == IF ws = <<>> \/ SeqSum(ws) = 0 THEN None ELSE Some(ws)

\* into_weighted that takes the weights as they are
into_weighted_unwrap(sel, t) ==
    Some(<<into_iter_path(sel, t), weights(sel.usage, t, into_iter_path(sel, t))>>)

\* PlaceSelector::into_weighted
into_weighted(sel, t) ==
    IF WeightedIndex_new(weights(sel.usage, t, into_iter_path(sel, t))) # None
    THEN Some(<<into_iter_path(sel, t),
                Unwrap(WeightedIndex_new(weights(sel.usage, t, into_iter_path(sel, t))))>>)
    ELSE None

\* ------------------------------------------------------------------ inputs

\* Every projection list that resolves from node n by following edges (the
\* types of the context are not recursive, so the lists are finite)
RECURSIVE paths_from(_, _)
paths_from(t, n) ==
    {<<>>} \cup UNION {{<<edge_proj(t, e)>> \o p : p \in paths_from(t, edge_dst(t, e))} :
                        e \in Range(edges_out(t, n))}

\* The Places a caller can name: a local of the current frame and a
\* projection list that resolves
PlaceExprs(t) ==
    UNION {{[local |-> l[1], projection |-> p] : p \in paths_from(t, l[2])} :
            l \in current_frame(t).locals}

\* The nodes those places resolve to
Nameable(t) == {Unwrap(get_node(t, pl)) : pl \in PlaceExprs(t)}

\* The local a generator declares next in the current frame
NextLocal(t) ==
    LET ids == {l[1] : l \in current_frame(t).locals}
    IN  IF ids = {} THEN 1 ELSE 1 + CHOOSE m \in ids : \A x \in ids : x <= m

\* The literals a caller may assign to a place of type ty
LitsOf(ty) ==
    CASE ty = "usize" -> {Usize(0), Usize(1), Usize(2)}
      [] ty = "i8"    -> {Int8(7)}
      [] OTHER        -> {}

\* ------------------------------------------------------------------- state

Init ==
    /\ frames = new_table.frames
    /\ index_candidates = new_table.index_candidates
    /\ places = new_table.places
    /\ edges = new_table.edges
    /\ memory = new_table.memory
    /\ last = "new"

\* The table after an operation, and the operation that produced it
Becomes(t, op) ==
    /\ frames' = t.frames
    /\ index_candidates' = t.index_candidates
    /\ places' = t.places
    /\ edges' = t.edges
    /\ memory' = t.memory
    /\ last' = op

EnterFn0(body, max) ==
    /\ places = <<>>
    /\ NodeCount(body.return_ty) + NodeCountSeq(body.args) <= max
    /\ Becomes(enter_fn0(PT, body), "enter_fn0")

AllocateLocal(ty, max) ==
    /\ Len(places) + NodeCount(ty) <= max
    /\ add_local_ok(current_frame(PT), NextLocal(PT), Len(places) + 1)
    /\ Becomes(allocate_local(PT, NextLocal(PT), ty), "allocate_local")

DeallocateLocal ==
    \E l \in current_frame(PT).locals :
        /\ is_place_live(PT, l[2])
        /\ Becomes(deallocate_local(PT, l[1]), "deallocate_local")

MarkPlaceInit ==
    \E p \in Nameable(PT) :
        /\ mark_ok(PT, p)
        /\ Becomes(mark_place_init(PT, p), "mark_place_init")

MarkPlaceUninit ==
    \E p \in Nameable(PT) :
        /\ mark_ok(PT, p)
        /\ Becomes(mark_place_uninit(PT, p), "mark_place_uninit")

MarkPlaceMoved ==
    \E p \in Nameable(PT) :
        /\ is_place_live(PT, p)
        /\ Becomes(mark_place_moved(PT, p), "mark_place_moved")

UpdateDataflow(flows) ==
    \E p \in Nameable(PT), v \in flows :
        /\ is_place_live(PT, p)
        /\ Becomes(update_dataflow(PT, p, v), "update_dataflow")

AssignLiteral ==
    \E p \in Nameable(PT) :
        \E val \in {None} \cup {Some(x) : x \in LitsOf(places[p].ty)} :
            /\ is_place_live(PT, p)
            /\ Becomes(assign_literal(PT, p, val), "assign_literal")

SetRef ==
    \E r \in Nameable(PT), q \in Nameable(PT) :
        /\ set_ref_ok(PT, r, q)
        /\ is_place_live(PT, r)
        /\ is_place_live(PT, q)
        /\ Becomes(set_ref(PT, r, q), "set_ref")

OffsetPtr ==
    \E p \in Nameable(PT), k \in Isize :
        /\ is_any_ptr(places[p].ty)
        /\ is_place_live(PT, p)
        /\ Becomes(offset_ptr(PT, p, k), "offset_ptr")

CopyPlace ==
    \E dst \in Nameable(PT), src \in Nameable(PT) :
        /\ dst # src
        /\ copy_place_ok(PT, dst, src)
        /\ is_place_live(PT, dst)
        /\ is_place_live(PT, src)
        /\ Becomes(copy_place(PT, dst, src), "copy_place")

\* The operands a caller can pass for an argument declared with type ty
OperandsOf(t, ty) ==
    {Copy(pl) : pl \in {x \in PlaceExprs(t) : t.places[Unwrap(get_node(t, x))].ty = ty}}
    \cup {Move(from_local(l[1])) : l \in {m \in current_frame(t).locals : t.places[m[2]].ty = ty}}
    \cup {Constant(lit) : lit \in LitsOf(ty)}

\* The operand lists for the argument types tys
RECURSIVE OperandLists(_, _)
OperandLists(t, tys) ==
    IF tys = <<>> THEN {<<>>}
    ELSE {<<o>> \o rest : o \in OperandsOf(t, Head(tys)), rest \in OperandLists(t, Tail(tys))}

\* What enter_fn needs to return normally: its expects and asserts, the
\* type assertion of each copy_place, and live bytes for every copy (a
\* source moved by an earlier argument is dead by then)
enter_fn_ok(t, body, operands, return_dest) ==
    /\ Len(operands) = Len(body.args)
    /\ get_node(t, return_dest) # None
    /\ \A i \in 1..Len(operands) :
          operands[i].kind # "Constant" =>
              /\ get_node(t, operands[i].place) # None
              /\ LET src == Unwrap(get_node(t, operands[i].place))
                 IN  /\ operands[i].kind = "Move" => get_by_index(current_frame(t), src) # None
                     /\ t.places[src].ty = body.args[i]
                     /\ is_place_live(t, src)
                     /\ \A j \in 1..(i - 1) :
                           operands[j].kind = "Move" =>
                               t.places[Unwrap(get_node(t, operands[j].place))].alloc_id
                                   # t.places[src].alloc_id

\* The debug assertion of enter_fn: "function arguments must be init"
args_init(t, operands) ==
    \A i \in 1..Len(operands) :
        operands[i].kind # "Constant" =>
            is_place_init(t, Unwrap(get_node(t, operands[i].place)))

\* The calls a caller can make to a body of bodies: operands of the declared
\* types, a live destination of the return type, and nothing enter_fn asserts
\* against
Calls(t, bodies) ==
    {c \in UNION {[body : {b}, operands : OperandLists(t, b.args),
                   dest : {x \in PlaceExprs(t) :
                             t.places[Unwrap(get_node(t, x))].ty = b.return_ty}] :
                  b \in bodies} :
        /\ enter_fn_ok(t, c.body, c.operands, c.dest)
        /\ args_init(t, c.operands)
        /\ is_place_live(t, Unwrap(get_node(t, c.dest)))}

EnterFn(bodies, max) ==
    /\ Len(frames) < MaxFrames
    /\ \E c \in Calls(PT, bodies) :
          /\ Len(places) + NodeCount(c.body.return_ty) + NodeCountSeq(c.body.args) <= max
          /\ Becomes(enter_fn(PT, c.body, c.operands, c.dest), "enter_fn")

ExitFn ==
    /\ exit_fn_ok(PT)
    /\ Becomes(exit_fn(PT), "exit_fn")

\* The run pointers a caller holds: those of the places of the table
RunPtrs(t) == UNION {t.places[n].run_ptr : n \in 1..Len(t.places)}

\* The tags and borrow kinds a caller passes (no operation tells Raw from
\* Exclusive)
Tags == {1, 2}
BorrowTypes == {"Shared", "Exclusive"}

AddRef(max) ==
    \E rp \in RunPtrs(PT), borrow_type \in BorrowTypes, tag \in Tags :
        /\ \A stack \in stacks_of(memory, rp) : Len(stack) < max
        /\ tag \in DOMAIN memory.pointers => Len(memory.pointers[tag]) < MaxRunPtrs
        /\ Becomes([PT EXCEPT !.memory = add_ref(@, rp, borrow_type, tag)], "add_ref")

RemoveTag ==
    \E tag \in Tags :
        /\ remove_tag_ok(memory, tag)
        /\ Becomes([PT EXCEPT !.memory = remove_tag(@, tag)], "remove_tag")

RemoveTagRunPtr ==
    \E rp \in RunPtrs(PT), tag \in Tags :
        /\ remove_borrow_ok(memory, rp, tag)
        /\ Becomes([PT EXCEPT !.memory = remove_tag_run_ptr(@, tag, rp)],
                   "remove_tag_run_ptr")

RemoveTagsAbove ==
    \E rp \in RunPtrs(PT), tag \in Tags :
        Becomes([PT EXCEPT !.memory = remove_tags_above(@, tag, rp)], "remove_tags_above")

MarkProtected ==
    \E rp \in RunPtrs(PT), tag \in Tags :
        Becomes([PT EXCEPT !.memory = mark_protected(@, rp, tag)], "mark_protected")

\* ---------------------------------------------------------- specifications

\* Bodies with return type in rets and at most one argument, typed in args
BodiesOf(rets, args) ==
    {[return_ty |-> r, args |-> a] : r \in rets, a \in {<<>>} \cup {<<x>> : x \in args}}

\* Initialization and liveness over tuples, arrays and structs
InitTys == {"i8", "(i8,())", "[i8;2]", "[(i8,);2]", "S{i8,i16}"}
Next ==
    \/ \E ty \in InitTys : AllocateLocal(ty, MaxPlaces)
    \/ DeallocateLocal
    \/ MarkPlaceInit
    \/ MarkPlaceUninit
    \/ CopyPlace

Spec == Init /\ [][Next]_vars

\* Pointers: pointees, offsets and what they make reachable
PtrTys == {"*(*i32,)", "(*i32,)", "i32"}
NextPtr ==
    \/ \E ty \in PtrTys : AllocateLocal(ty, MaxPtrPlaces)
    \/ DeallocateLocal
    \/ SetRef
    \/ MarkPlaceUninit
    \/ CopyPlace

SpecPtr == Init /\ [][NextPtr]_vars

\* Dataflow over nested tuples and structs
FlowTys == {"(i8,(i16,i32),i64)", "S{i8,i16}", "i8"}
FlowVals == {1, 150}
NextFlow ==
    \/ \E ty \in FlowTys : AllocateLocal(ty, MaxTreePlaces)
    \/ UpdateDataflow(FlowVals)
    \/ CopyPlace

SpecFlow == Init /\ [][NextFlow]_vars

\* The type of the local the current function declares next, when its
\* declarations are decls
NextDecl(t, decls) ==
    IF NextLocal(t) <= Len(decls) THEN {decls[NextLocal(t)]} ELSE {}

\* Calls: a caller that declares a tuple, an integer and a pointer and
\* writes to them, and callees that take one or two arguments, declare
\* nothing more and are looked at as enter_fn leaves them
CallDecls(t) == IF Len(t.frames) = 1 THEN <<"(i8,)", "i8", "*i8">> ELSE <<>>
CallBodies ==
    {[return_ty |-> "i8", args |-> a] :
        a \in {<<"(i8,)">>, <<"i8">>, <<"*i8">>, <<"i8", "i8">>}}
NextCall ==
    \/ \E ty \in NextDecl(PT, CallDecls(PT)) : AllocateLocal(ty, MaxCallPlaces)
    \/ Len(frames) = 1 /\ MarkPlaceInit
    \/ Len(frames) = 1 /\ AssignLiteral
    \/ Len(frames) = 1 /\ SetRef
    \/ Len(frames) = 1 /\ UpdateDataflow({3})
    \/ EnterFn(CallBodies, MaxCallPlaces)

SpecCall == Init /\ [][NextCall]_vars

\* Returns: a caller that declares an integer and a pointer, a callee that
\* returns an integer, and a callee that declares an integer and returns a
\* pointer
RetDecls(t) ==
    IF Len(t.frames) = 1 THEN <<"i8", "*i8">>
    ELSE IF t.places[Unwrap(get_node(t, RETURN_SLOT))].ty = "*i8" THEN <<"i8">>
    ELSE <<>>
RetBodies == BodiesOf({"i8", "*i8"}, {})
NextRet ==
    \/ \E ty \in NextDecl(PT, RetDecls(PT)) : AllocateLocal(ty, MaxRetPlaces)
    \/ MarkPlaceInit
    \/ AssignLiteral
    \/ UpdateDataflow({3})
    \/ SetRef
    \/ EnterFn(RetBodies, MaxRetPlaces)
    \/ ExitFn

SpecRet == Init /\ [][NextRet]_vars

\* Copies: a function that declares two tuples and two pointers, writes to
\* them and copies one to another
CopyDecls == <<"(i8,)", "(i8,)", "*i8", "*i8">>
NextCopy ==
    \/ \E ty \in NextDecl(PT, CopyDecls) : AllocateLocal(ty, MaxCopyPlaces)
    \/ MarkPlaceInit
    \/ AssignLiteral
    \/ UpdateDataflow({3})
    \/ SetRef
    \/ CopyPlace

SpecCopy == Init /\ [][NextCopy]_vars

\* Borrows: a function that declares an array of two bytes, and a caller of
\* the memory that borrows the array's run and its elements'
BorrowDecls == <<"[i8;2]">>
NextBorrow ==
    \/ \E ty \in NextDecl(PT, BorrowDecls) : AllocateLocal(ty, MaxBorrowPlaces)
    \/ AddRef(MaxBorrows)
    \/ RemoveTag
    \/ RemoveTagRunPtr
    \/ RemoveTagsAbove
    \/ MarkProtected

SpecBorrow == Init /\ [][NextBorrow]_vars

\* One borrow stack, deeper: a function that declares one byte
StackDecls == <<"i8">>
NextStack ==
    \/ \E ty \in NextDecl(PT, StackDecls) : AllocateLocal(ty, MaxBorrowPlaces)
    \/ AddRef(MaxStackBorrows)
    \/ RemoveTag
    \/ RemoveTagRunPtr
    \/ RemoveTagsAbove
    \/ MarkProtected

SpecStack == Init /\ [][NextStack]_vars

\* Selection: a caller that declares a tuple and a pointer, writes to them
\* and calls a callee that takes the pointer and declares nothing more
SelDecls(t) == IF Len(t.frames) = 1 THEN <<"(i8,)", "*i8">> ELSE <<>>
SelBodies == {[return_ty |-> "i8", args |-> <<"*i8">>]}
NextSel ==
    \/ \E ty \in NextDecl(PT, SelDecls(PT)) : AllocateLocal(ty, MaxSelPlaces)
    \/ Len(frames) = 1 /\ MarkPlaceInit
    \/ Len(frames) = 1 /\ AssignLiteral
    \/ Len(frames) = 1 /\ UpdateDataflow({3, 150})
    \/ Len(frames) = 1 /\ SetRef
    \/ DeallocateLocal
    \/ EnterFn(SelBodies, MaxSelPlaces)

SpecSel == Init /\ [][NextSel]_vars

\* Indexing: a caller that declares an integer and an array to index with
\* it, and a callee that takes an integer and is looked at as enter_fn
\* leaves it
IdxDecls(t) == IF Len(t.frames) = 1 THEN <<"usize", "[i8;2]">> ELSE <<>>
IdxBodies == {[return_ty |-> "usize", args |-> <<"usize">>]}
NextIdx ==
    \/ \E ty \in NextDecl(PT, IdxDecls(PT)) : AllocateLocal(ty, MaxIdxPlaces)
    \/ Len(frames) = 1 /\ MarkPlaceInit
    \/ Len(frames) = 1 /\ MarkPlaceMoved
    \/ Len(frames) = 1 /\ AssignLiteral
    \/ Len(frames) = 1 /\ DeallocateLocal
    \/ EnterFn(IdxBodies, MaxIdxPlaces)

SpecIdx == Init /\ [][NextIdx]_vars

\* Pointer arithmetic: an integer and two pointers that are pointed at it,
\* offset and copied
OffDecls == <<"i8", "*i8", "*i8">>
NextOff ==
    \/ \E ty \in NextDecl(PT, OffDecls) : AllocateLocal(ty, MaxOffPlaces)
    \/ SetRef
    \/ OffsetPtr
    \/ CopyPlace

SpecOff == Init /\ [][NextOff]_vars

\* Violations: two integers and a tuple that are initialized, assigned
\* and deallocated
AbortDecls == <<"usize", "usize", "(i8,)">>
NextAbort ==
    \/ \E ty \in NextDecl(PT, AbortDecls) : AllocateLocal(ty, MaxAbortPlaces)
    \/ MarkPlaceInit
    \/ AssignLiteral
    \/ DeallocateLocal

SpecAbort == Init /\ [][NextAbort]_vars

\* Dataflow through calls: a first function that returns an integer, takes
\* a tuple of a pointer and declares another, and a callee that returns
\* such a tuple
DfBody0 == [return_ty |-> "i32", args |-> <<"(*i32,)">>]
DfDecls(t) == IF Len(t.frames) = 1 THEN <<"(*i32,)", "(*i32,)">> ELSE <<>>
DfBodies == {[return_ty |-> "(*i32,)", args |-> <<>>]}
NextDf ==
    \/ EnterFn0(DfBody0, MaxDfPlaces)
    \/ places # <<>> /\ \E ty \in NextDecl(PT, DfDecls(PT)) : AllocateLocal(ty, MaxDfPlaces)
    \/ UpdateDataflow({1, 150})
    \/ SetRef
    \/ CopyPlace
    \/ EnterFn(DfBodies, MaxDfPlaces)
    \/ ExitFn

SpecDf == Init /\ [][NextDf]_vars

\* Moves: a nested tuple and an array that are moved, whole or in part,
\* and deallocated
MoveDecls == <<"(i8,(i16,i32),i64)", "[i8;2]">>
NextMove ==
    \/ \E ty \in NextDecl(PT, MoveDecls) : AllocateLocal(ty, MaxMovePlaces)
    \/ MarkPlaceMoved
    \/ DeallocateLocal

SpecMove == Init /\ [][NextMove]_vars

\* The literal-index cache across calls: a caller that declares two
\* integers, initializes them before it calls and assigns them, and a
\* callee that takes one, returns one and assigns its own
CacheDecls(t) == IF Len(t.frames) = 1 THEN <<"usize", "usize">> ELSE <<>>
CacheBodies == {[return_ty |-> "usize", args |-> <<"usize">>]}
NextCache ==
    \/ \E ty \in NextDecl(PT, CacheDecls(PT)) : AllocateLocal(ty, MaxCachePlaces)
    \/ Len(places) = 2 /\ MarkPlaceInit
    \/ AssignLiteral
    \/ EnterFn(CacheBodies, MaxCachePlaces)
    \/ ExitFn

SpecCache == Init /\ [][NextCache]_vars

\* Indexing after a call: a caller that declares an integer and an array,
\* assigns the integer and calls a function that returns a byte into an
\* element of the array
IdxRetDecls(t) == IF Len(t.frames) = 1 THEN <<"usize", "[i8;2]">> ELSE <<>>
IdxRetBodies == {[return_ty |-> "i8", args |-> <<>>]}
NextIdxRet ==
    \/ \E ty \in NextDecl(PT, IdxRetDecls(PT)) : AllocateLocal(ty, MaxIdxRetPlaces)
    \/ Len(frames) = 1 /\ MarkPlaceInit
    \/ Len(frames) = 1 /\ AssignLiteral
    \/ EnterFn(IdxRetBodies, MaxIdxRetPlaces)
    \/ ExitFn

SpecIdxRet == Init /\ [][NextIdxRet]_vars

\* Liveness: a caller that declares a tuple and an array, deallocates
\* locals (a dead one again too: deallocate_local asks nothing of the local
\* but that it resolves) and calls a callee that takes the tuple
DeallocateAnyLocal ==
    \E l \in current_frame(PT).locals :
        Becomes(deallocate_local(PT, l[1]), "deallocate_local")

LiveDecls(t) == IF Len(t.frames) = 1 THEN <<"(i8,)", "[i8;2]">> ELSE <<>>
LiveBodies == {[return_ty |-> "i8", args |-> <<"(i8,)">>]}
NextLive ==
    \/ \E ty \in NextDecl(PT, LiveDecls(PT)) : AllocateLocal(ty, MaxLivePlaces)
    \/ Len(frames) = 1 /\ MarkPlaceInit
    \/ DeallocateAnyLocal
    \/ EnterFn(LiveBodies, MaxLivePlaces)
    \/ ExitFn

SpecLive == Init /\ [][NextLive]_vars

\* Marking: a function that declares an array of bytes and a pointer, and
\* writes initialization, literals, dataflow, moves and pointees to them
MarkDecls == <<"[i8;2]", "*i8">>
NextMark ==
    \/ \E ty \in NextDecl(PT, MarkDecls) : AllocateLocal(ty, MaxMarkPlaces)
    \/ MarkPlaceInit
    \/ MarkPlaceUninit
    \/ AssignLiteral
    \/ UpdateDataflow({3})
    \/ MarkPlaceMoved
    \/ SetRef

SpecMark == Init /\ [][NextMark]_vars

\* ------------------------------------------------------------------ claims

Nodes == 1..Len(places)
Children(t, p) == Range(immediate_subfields(t, p))
\* The strict ancestors of n: the places above it along non-deref edges
Ancestors(t, n) == Range(transitive_superfields(t, n))
\* p and everything below it along non-deref edges
Subtree(t, p) == {n \in 1..Len(t.places) : n = p \/ p \in Ancestors(t, n)}
\* Whether the place holds at least one byte
HasBytes(t, p) ==
    \E n \in Subtree(t, p) :
        t.places[n].run_ptr # None /\ Unwrap(t.places[n].run_ptr).size > 0
\* All orders in which the elements of S can be taken
Perms(S) == {f \in [1..Cardinality(S) -> S] : \A i, j \in DOMAIN f : f[i] = f[j] => i = j}
\* The nodes a sequence of PlacePaths ends at
Targets(t, ppaths) == AsSeq([i \in 1..Len(ppaths) |-> target_index(t, ppaths[i])])

\* What a place points at: pointee, which asserts that the place is a
\* pointer, asked of pointers only
PointeeOf(t, n) == IF is_any_ptr(t.places[n].ty) THEN pointee(t, n) ELSE None

\* C1: in every reachable state, a live place with at least one immediate
\* non-deref child (an array that carries its own run pointer included) is
\* initialized exactly when all of its immediate children are.
C1_InitIsConjunctionOfChildren ==
    \A p \in Nodes :
        (is_place_live(PT, p) /\ Children(PT, p) # {}) =>
            (is_place_init(PT, p) <=> \A c \in Children(PT, p) : is_place_init(PT, c))

\* An array with a run pointer of its own, one element initialized by
\* mark_place_init and the other not
C1_Witness ==
    /\ last = "mark_place_init"
    /\ \E p \in Nodes :
          /\ places[p].run_ptr # None
          /\ is_place_live(PT, p)
          /\ ~is_place_init(PT, p)
          /\ \E c, d \in Children(PT, p) : is_place_init(PT, c) /\ ~is_place_init(PT, d)

\* mark_place_init on every place of order, one after the other
RECURSIVE mark_all_init(_, _)
mark_all_init(t, order) ==
    IF order = <<>> THEN t
    ELSE mark_all_init(mark_place_init(t, Head(order)), Tail(order))

\* The first half of C2: marking every immediate child initialized, in any
\* order, makes the place initialized
C2_InitAllChildren ==
    \A p \in Nodes :
        (is_place_live(PT, p) /\ Children(PT, p) # {}) =>
            \A order \in Perms(Children(PT, p)) :
                is_place_init(mark_all_init(PT, order), p)

\* C2 as stated: the first half, and marking any single immediate child
\* uninitialized makes the place uninitialized, whatever the child's type.
C2_Original ==
    /\ C2_InitAllChildren
    /\ \A p \in Nodes :
          (is_place_live(PT, p) /\ Children(PT, p) # {}) =>
              \A c \in Children(PT, p) :
                  ~is_place_init(mark_place_uninit(PT, c), p)

\* C2 (amended): the first half, and marking uninitialized any single
\* immediate child that holds at least one byte makes the place
\* uninitialized; a child without bytes (the unit type) stays initialized.
C2_InitAllUninitAnyWithBytes ==
    /\ C2_InitAllChildren
    /\ \A p \in Nodes :
          (is_place_live(PT, p) /\ Children(PT, p) # {}) =>
              \A c \in Children(PT, p) :
                  /\ HasBytes(PT, c) => ~is_place_init(mark_place_uninit(PT, c), p)
                  /\ ~HasBytes(PT, c) => is_place_init(mark_place_uninit(PT, c), c)

\* A place that mark_place_uninit on one child has just made uninitialized:
\* that child is uninitialized and every other child still initialized
C2_Witness ==
    /\ last = "mark_place_uninit"
    /\ \E p \in Nodes :
          /\ is_place_live(PT, p)
          /\ ~is_place_init(PT, p)
          /\ \E c \in Children(PT, p) :
                /\ ~is_place_init(PT, c)
                /\ Children(PT, c) # {}
                /\ \A d \in Children(PT, p) \ {c} : is_place_init(PT, d)

\* The table with one more local, of the nested tuple type of the tests
WithNestedTuple(t) == allocate_local(t, NextLocal(t), "(i8,(i16,i32),i64)")

\* What overlap is to compute: the same place, or the same allocation and
\* one a transitive non-deref subfield of the other
Overlapping(t, a, b) ==
    \/ a = b
    \/ /\ t.places[a].alloc_id = t.places[b].alloc_id
       /\ (a \in Ancestors(t, b) \/ b \in Ancestors(t, a))

\* C3: overlap(a, b) holds exactly when a and b are the same place, or are
\* in one allocation with one a transitive non-deref subfield of the other:
\* siblings do not overlap, a field overlaps each of its ancestors, and
\* places of different allocations never do, a pointer and its pointee
\* included. Checked on every pair of places of the table, and of the table
\* with a nested tuple declared in it.
C3_OverlapIffSameOrSubfield ==
    /\ \A a, b \in Nodes : overlap(PT, a, b) <=> Overlapping(PT, a, b)
    /\ LET t == WithNestedTuple(PT)
       IN  \A a, b \in 1..Len(t.places) : overlap(t, a, b) <=> Overlapping(t, a, b)

\* A pointer that set_ref has just pointed at a place of another local: the
\* two do not overlap, while a tuple and its field do
C3_Witness ==
    /\ last = "set_ref"
    /\ \E r, q \in Nodes :
          /\ PointeeOf(PT, r) = Some(q)
          /\ ~overlap(PT, r, q)
          /\ places[r].alloc_id # places[q].alloc_id
    /\ \E a, b \in Nodes : a # b /\ b \in Children(PT, a) /\ overlap(PT, b, a)

\* C4: overlap is reflexive and symmetric on all places of the graph, in
\* every reachable state, after deallocate_local and set_ref included.
C4_OverlapReflexiveSymmetric ==
    \A a, b \in Nodes :
        /\ overlap(PT, a, a)
        /\ overlap(PT, a, b) = overlap(PT, b, a)

\* A deallocated tuple and its field overlap both ways, in a graph that
\* holds a deref edge
C4_Witness ==
    /\ last = "deallocate_local"
    /\ \E r \in Nodes : PointeeOf(PT, r) # None
    /\ \E a, b \in Nodes :
          /\ a # b
          /\ ~is_place_live(PT, a)
          /\ b \in Children(PT, a)
          /\ overlap(PT, a, b) /\ overlap(PT, b, a)

\* The largest element of a non-empty set of numbers
MaxOf(S) == CHOOSE m \in S : \A x \in S : x <= m

\* C5: after update_dataflow(p, v), p and every transitive non-deref
\* subfield of p have dataflow min(v, 100), whatever they had before; every
\* strict ancestor of p has the maximum of its immediate children's
\* dataflow; every other place keeps its dataflow.
C5_UpdateDataflowOverwritesAndPropagates ==
    \A p \in Nodes, v \in {0, 3, 100, 150} :
        LET t == update_dataflow(PT, p, v)
        IN  /\ \A n \in Subtree(PT, p) : dataflow(t, n) = Min2(v, 100)
            /\ \A a \in Ancestors(PT, p) :
                  dataflow(t, a) = MaxOf({dataflow(t, c) : c \in Children(PT, a)})
            /\ \A n \in Nodes \ (Subtree(PT, p) \cup Ancestors(PT, p)) :
                  dataflow(t, n) = dataflow(PT, n)

\* update_dataflow with a value above 100 has just overwritten a nested
\* composite: its subtree holds 100, so do its ancestors, and a sibling leaf
\* keeps a smaller dataflow it was given before
C5_Witness ==
    /\ last = "update_dataflow"
    /\ \E p \in Nodes :
          /\ Children(PT, p) # {}
          /\ Ancestors(PT, p) # {}
          /\ \A n \in Subtree(PT, p) \cup Ancestors(PT, p) : dataflow(PT, n) = 100
          /\ \E a \in Ancestors(PT, p) :
                \E c \in Children(PT, a) : dataflow(PT, c) = 1

\* The immediate non-deref subfields of n in declared order: by the index
\* their projection carries
DeclaredFields(t, n) ==
    LET idx(c) == (CHOOSE pr \in Range(non_deref_projs(t, n)) :
                      project_from_node(t, n, pr) = Some(c)).idx
    IN  CHOOSE s \in Perms(Children(t, n)) :
            \A i, j \in DOMAIN s : i < j => idx(s[i]) < idx(s[j])

\* Depth-first preorder over the nodes ns and their non-deref subfields
RECURSIVE Preorder(_, _)
Preorder(t, ns) ==
    IF ns = <<>> THEN <<>>
    ELSE <<Head(ns)>> \o Preorder(t, DeclaredFields(t, Head(ns))) \o Preorder(t, Tail(ns))

\* C6: on a place of tuple or struct type, reachable_from_node yields the
\* place and then each of its transitive non-deref subfields exactly once,
\* in depth-first preorder with siblings in declared order; reachable_nodes
\* is that enumeration for each local of the frame. For (i8, (i16, i32), i64)
\* the types come as root, i8, (i16, i32), i16, i32, i64.
C6_ReachablePreorderDeclaredOrder ==
    /\ \A n \in Nodes :
          LET ts == Targets(PT, reachable_from_node(PT, n))
          IN  /\ ts = Preorder(PT, <<n>>)
              /\ Range(ts) = Subtree(PT, n)
              /\ \A i, j \in DOMAIN ts : ts[i] = ts[j] => i = j
              /\ places[n].ty = "(i8,(i16,i32),i64)" =>
                    [i \in DOMAIN ts |-> places[ts[i]].ty]
                        = <<"(i8,(i16,i32),i64)", "i8", "(i16,i32)", "i16", "i32", "i64">>
    /\ Targets(PT, reachable_nodes(PT)) = Preorder(PT, current_frame(PT).locals_ordered)

\* A local of the nested tuple type has just been declared, and its six
\* places are enumerated from its root
C6_Witness ==
    /\ last = "allocate_local"
    /\ \E n \in Nodes :
          /\ places[n].ty = "(i8,(i16,i32),i64)"
          /\ get_by_index(current_frame(PT), n) # None
          /\ Len(reachable_from_node(PT, n)) = 6
          /\ Len(reachable_nodes(PT)) = 6

\* C7: an enumerated path holds a deref edge at its first position or
\* nowhere. From a pointer, the enumeration is the pointer, its pointee and
\* the pointee's transitive non-deref subfields; from any other place, the
\* place and its transitive non-deref subfields. So from a pointer to a
\* tuple whose field 0 points at an i32 come the pointer, the tuple and the
\* field, never the i32.
C7_OneDerefAtRootOnly ==
    \A n \in Nodes :
        LET ppaths == reachable_from_node(PT, n)
            through == IF PointeeOf(PT, n) = None THEN {}
                       ELSE Subtree(PT, Unwrap(PointeeOf(PT, n)))
        IN  /\ \A k \in DOMAIN ppaths :
                  \A i \in 2..Len(ppaths[k].path) :
                      ~is_deref(projections(PT, ppaths[k])[i])
            /\ Range(Targets(PT, ppaths)) = Subtree(PT, n) \cup through

\* set_ref has just completed the chain of the claim: root points at a
\* tuple, the tuple's field 0 points at an i32, and the enumeration from
\* root is root, the tuple, the field
C7_Witness ==
    /\ last = "set_ref"
    /\ \E root, tup, f, i \in Nodes :
          /\ places[root].ty = "*(*i32,)"
          /\ PointeeOf(PT, root) = Some(tup)
          /\ project_from_node(PT, tup, TupleField(0)) = Some(f)
          /\ PointeeOf(PT, f) = Some(i)
          /\ places[i].ty = "i32"
          /\ Targets(PT, reachable_from_node(PT, root)) = <<root, tup, f>>

\* The projection lists that lead from n to itself and to its transitive
\* non-deref subfields: the sub-places of n
RECURSIVE FieldPaths(_, _)
FieldPaths(t, n) ==
    {<<>>} \cup UNION {{<<pr>> \o path :
                          path \in FieldPaths(t, Unwrap(project_from_node(t, n, pr)))} :
                       pr \in Range(non_deref_projs(t, n))}

\* The sub-place of n that path leads to
At(t, n, path) == Unwrap(get_node_from(t, n, path))

\* Whether n or a subfield of n is a pointer with a pointee
HoldsPointee(t, n) == \E m \in Subtree(t, n) : PointeeOf(t, m) # None

\* The parts of C8 that do not speak of dataflow: exit_fn pops exactly the
\* top frame; every sub-place of the return destination has the
\* initialization state, the literal and the pointee its counterpart in the
\* callee's return place had; the allocations of the popped frame's locals
\* are dead and no other allocation changes liveness
C8_PopCopyDeallocate ==
    exit_fn_ok(PT) =>
        LET t == exit_fn(PT)
            src == Unwrap(get_node(PT, RETURN_SLOT))
            dst == current_frame(PT).return_destination
            owned == {places[l[2]].alloc_id : l \in current_frame(PT).locals}
        IN  /\ t.frames = Front(frames)
            /\ \A path \in FieldPaths(PT, src) :
                  LET s == At(PT, src, path)
                      d == At(t, dst, path)
                  IN  /\ is_place_init(t, d) = is_place_init(PT, s)
                      /\ known_val(t, d) = known_val(PT, s)
                      /\ PointeeOf(PT, s) # None => PointeeOf(t, d) = PointeeOf(PT, s)
            /\ \A a \in DOMAIN memory.allocations :
                  is_live(t.memory, a) = (a \notin owned /\ is_live(memory, a))

\* C8 as stated: the above, and every sub-place of the return destination
\* has the dataflow of its counterpart in the callee's return place.
C8_Original ==
    /\ C8_PopCopyDeallocate
    /\ exit_fn_ok(PT) =>
          LET t == exit_fn(PT)
              src == Unwrap(get_node(PT, RETURN_SLOT))
              dst == current_frame(PT).return_destination
          IN  \A path \in FieldPaths(PT, src) :
                  dataflow(t, At(t, dst, path)) = dataflow(PT, At(PT, src, path))

\* C8 (amended): the above, and a sub-place of the return destination has the
\* dataflow of its counterpart in the callee's return place unless that
\* counterpart is, or holds, a pointer with a pointee; a pointer with a
\* pointee takes the dataflow its pointee has at the return.
C8_ExitFnCopyButPointerDataflow ==
    /\ C8_PopCopyDeallocate
    /\ exit_fn_ok(PT) =>
          LET t == exit_fn(PT)
              src == Unwrap(get_node(PT, RETURN_SLOT))
              dst == current_frame(PT).return_destination
          IN  \A path \in FieldPaths(PT, src) :
                  LET s == At(PT, src, path)
                      d == At(t, dst, path)
                  IN  /\ ~HoldsPointee(PT, s) => dataflow(t, d) = dataflow(PT, s)
                      /\ PointeeOf(PT, s) # None =>
                            dataflow(t, d) = dataflow(t, Unwrap(PointeeOf(PT, s)))

\* exit_fn has just returned a pointer: the destination points where the
\* dead return place points, at a dead local of the popped frame, and has
\* that pointee's dataflow, which the return place does not have
C8_Witness ==
    /\ last = "exit_fn"
    /\ Len(frames) = 1
    /\ \E d, s, q \in Nodes :
          /\ is_place_live(PT, d)
          /\ ~is_place_live(PT, s)
          /\ ~is_place_live(PT, q)
          /\ PointeeOf(PT, d) = Some(q)
          /\ PointeeOf(PT, s) = Some(q)
          /\ dataflow(PT, d) = dataflow(PT, q)
          /\ dataflow(PT, d) # dataflow(PT, s)

\* C9 as stated: whatever call enter_fn is given, the return destination is
\* uninitialized once it returns.
C9_Original ==
    \A c \in Calls(PT, CallBodies) :
        ~is_place_init(enter_fn(PT, c.body, c.operands, c.dest),
                       Unwrap(get_node(PT, c.dest)))

\* The node an operand names in the caller's frame
SrcOf(t, op) == Unwrap(get_node(t, op.place))

\* d in t1 is a structural copy of the value s has in t0, dataflow apart:
\* every sub-place has the initialization state, literal, pointee and offset
\* of its counterpart
StructCopy(t0, s, t1, d) ==
    \A path \in FieldPaths(t0, s) :
        LET n0 == At(t0, s, path)
            n1 == At(t1, d, path)
        IN  /\ is_place_init(t1, n1) = is_place_init(t0, n0)
            /\ known_val(t1, n1) = known_val(t0, n0)
            /\ PointeeOf(t1, n1) = PointeeOf(t0, n0)
            /\ t1.places[n1].offset = t0.places[n0].offset

\* Every sub-place of d in t1 has the dataflow of its counterpart in s in t0
SameDataflow(t0, s, t1, d) ==
    \A path \in FieldPaths(t0, s) :
        dataflow(t1, At(t1, d, path)) = dataflow(t0, At(t0, s, path))

\* The same, but for the sub-places that are, or hold, a pointer with a
\* pointee; such a pointer has the dataflow of its pointee
PointeeDataflow(t0, s, t1, d) ==
    \A path \in FieldPaths(t0, s) :
        LET n0 == At(t0, s, path)
            n1 == At(t1, d, path)
        IN  /\ ~HoldsPointee(t0, n0) => dataflow(t1, n1) = dataflow(t0, n0)
            /\ PointeeOf(t0, n0) # None =>
                  dataflow(t1, n1) = dataflow(t1, Unwrap(PointeeOf(t0, n0)))

\* s and its subfields are in t1 what they were in t0: live, not moved, the
\* same node attributes, bytes and pointee
Untouched(t0, t1, s) ==
    /\ is_place_live(t1, s)
    /\ \A n \in Subtree(t0, s) :
          /\ ~is_place_moved(t1, n)
          /\ t1.places[n] = t0.places[n]
          /\ PointeeOf(t1, n) = PointeeOf(t0, n)
          /\ t0.places[n].run_ptr # None =>
                bytes(t1.memory, Unwrap(t1.places[n].run_ptr))
                    = bytes(t0.memory, Unwrap(t0.places[n].run_ptr))

\* What enter_fn does for a moved source whatever the call: its allocation
\* is dead and it and its transitive subfields are flagged moved
Invalidated(t0, t1, s) ==
    /\ ~is_live(t1.memory, t0.places[s].alloc_id)
    /\ \A n \in Subtree(t0, s) : is_place_moved(t1, n)

\* C10 as stated, for every call and every argument of it: the argument
\* local of a Move(src) is a structural copy of src before the call,
\* dataflow included, and src is invalidated; the source of a Copy(src) is
\* untouched.
C10_Original ==
    \A c \in Calls(PT, CallBodies) :
        LET t == enter_fn(PT, c.body, c.operands, c.dest)
        IN  \A i \in DOMAIN c.operands :
                LET op == c.operands[i]
                    arg == Unwrap(get_by_local(current_frame(t), i))
                IN  /\ op.kind = "Move" =>
                          /\ StructCopy(PT, SrcOf(PT, op), t, arg)
                          /\ SameDataflow(PT, SrcOf(PT, op), t, arg)
                          /\ Invalidated(PT, t, SrcOf(PT, op))
                    /\ op.kind = "Copy" => Untouched(PT, t, SrcOf(PT, op))

\* The return destination of call c does not overlap the source of its
\* i-th argument
DestApart(t, c, i) ==
    ~overlap(t, Unwrap(get_node(t, c.dest)), SrcOf(t, c.operands[i]))

\* No other argument of call c moves a place that overlaps the source of
\* its i-th argument
NotMovedToo(t, c, i) ==
    \A j \in DOMAIN c.operands \ {i} :
        c.operands[j].kind = "Move" =>
            ~overlap(t, SrcOf(t, c.operands[j]), SrcOf(t, c.operands[i]))

\* C10 (amended): a Move(src) is invalidated whatever the call; its
\* argument local is a structural copy of src before the call when the
\* return destination does not overlap src, with src's dataflow except on a
\* pointer with a pointee, which takes its pointee's; the source of a
\* Copy(src) is untouched when the return destination does not overlap it
\* and no other argument moves it.
C10_MoveInvalidatesCopyKeeps ==
    \A c \in Calls(PT, CallBodies) :
        LET t == enter_fn(PT, c.body, c.operands, c.dest)
        IN  \A i \in DOMAIN c.operands :
                LET op == c.operands[i]
                    arg == Unwrap(get_by_local(current_frame(t), i))
                IN  /\ op.kind = "Move" =>
                          /\ Invalidated(PT, t, SrcOf(PT, op))
                          /\ PointeeDataflow(PT, SrcOf(PT, op), t, arg)
                          /\ DestApart(PT, c, i) => StructCopy(PT, SrcOf(PT, op), t, arg)
                    /\ (op.kind = "Copy" /\ DestApart(PT, c, i) /\ NotMovedToo(PT, c, i)) =>
                          Untouched(PT, t, SrcOf(PT, op))

\* enter_fn has just moved a tuple into a call: the caller's tuple and its
\* field are dead and flagged moved, and the callee's argument local holds
\* the tuple's literal, initialized
C10_Witness ==
    /\ last = "enter_fn"
    /\ Len(frames) = 2
    /\ \E l \in frames[1].locals :
          /\ Children(PT, l[2]) # {}
          /\ ~is_place_live(PT, l[2])
          /\ \A n \in Subtree(PT, l[2]) : is_place_moved(PT, n)
    /\ \E a \in get_by_local(current_frame(PT), 1) :
          /\ places[a].ty = "(i8,)"
          /\ is_place_init(PT, a)
          /\ \E f \in Children(PT, a) : known_val(PT, f) = Some(Int8(7))

\* The pairs copy_place is asked to copy in the claims: distinct live places
\* of one type
CopyPairs(t) ==
    {pr \in (1..Len(t.places)) \X (1..Len(t.places)) :
        /\ pr[1] # pr[2]
        /\ t.places[pr[1]].ty = t.places[pr[2]].ty
        /\ is_place_live(t, pr[1])
        /\ is_place_live(t, pr[2])}

\* The parts of C11 that do not speak of dataflow: once copy_place(dst, src)
\* is done, corresponding sub-places agree on is_place_init and known_val,
\* and src's subtree is what it was: nodes, bytes and pointees
C11_CopyInitLiteralSrcKept ==
    \A pr \in CopyPairs(PT) :
        LET dst == pr[1]
            src == pr[2]
            t == copy_place(PT, dst, src)
        IN  /\ \A path \in FieldPaths(PT, src) :
                  LET s == At(t, src, path)
                      d == At(t, dst, path)
                  IN  /\ is_place_init(t, d) = is_place_init(t, s)
                      /\ known_val(t, d) = known_val(t, s)
            /\ \A n \in Subtree(PT, src) :
                  /\ t.places[n] = places[n]
                  /\ PointeeOf(t, n) = PointeeOf(PT, n)
                  /\ is_place_init(t, n) = is_place_init(PT, n)

\* C11 as stated: the above, and corresponding sub-places have the same
\* stored dataflow.
C11_Original ==
    /\ C11_CopyInitLiteralSrcKept
    /\ \A pr \in CopyPairs(PT) :
          LET t == copy_place(PT, pr[1], pr[2])
          IN  \A path \in FieldPaths(PT, pr[2]) :
                  dataflow(t, At(t, pr[1], path)) = dataflow(t, At(t, pr[2], path))

\* C11 (amended): the above, and corresponding sub-places have the same
\* stored dataflow unless the source sub-place is, or holds, a pointer with a
\* pointee; a pointer with a pointee takes its pointee's dataflow.
C11_CopyButPointerDataflow ==
    /\ C11_CopyInitLiteralSrcKept
    /\ \A pr \in CopyPairs(PT) :
          LET t == copy_place(PT, pr[1], pr[2])
          IN  \A path \in FieldPaths(PT, pr[2]) :
                  LET s == At(t, pr[2], path)
                      d == At(t, pr[1], path)
                  IN  /\ ~HoldsPointee(PT, s) => dataflow(t, d) = dataflow(t, s)
                      /\ PointeeOf(PT, s) # None =>
                            dataflow(t, d) = dataflow(t, Unwrap(PointeeOf(PT, s)))

\* copy_place has just copied a tuple onto another: the two are initialized
\* and their fields hold the same literal and the same non-zero dataflow
C11_Witness ==
    /\ last = "copy_place"
    /\ \E d, s \in Nodes :
          /\ d # s
          /\ places[d].ty = "(i8,)" /\ places[s].ty = "(i8,)"
          /\ is_place_init(PT, d) /\ is_place_init(PT, s)
          /\ \E fd \in Children(PT, d), fs \in Children(PT, s) :
                /\ known_val(PT, fd) = Some(Int8(7))
                /\ known_val(PT, fs) = Some(Int8(7))
                /\ dataflow(PT, fd) = 3 /\ dataflow(PT, fs) = 3

\* C12 as stated: after copy_place(dst, src) on pointers, dst points at q
\* exactly when src does, by an edge of its own, and the two have the same
\* offset.
C12_Original ==
    \A pr \in CopyPairs(PT) :
        is_any_ptr(places[pr[1]].ty) =>
            LET dst == pr[1]
                src == pr[2]
                t == copy_place(PT, dst, src)
            IN  /\ pointee(t, dst) = pointee(PT, src)
                /\ pointee(t, src) = pointee(PT, src)
                /\ ref_edge(t, dst) # None => edge_src(Unwrap(ref_edge(t, dst))) = dst
                /\ get_offset(t, dst) = get_offset(t, src)

\* The borrow stacks of the memory, each named by allocation, run and byte
StackIds(mem) ==
    {id \in (DOMAIN mem.allocations) \X {1} \X {1, 2} :
        /\ id[2] \in DOMAIN mem.allocations[id[1]].runs
        /\ id[3] \in DOMAIN mem.allocations[id[1]].runs[id[2]].ref_stack}
StackAt(mem, id) == mem.allocations[id[1]].runs[id[2]].ref_stack[id[3]]
\* Whether run pointer rp covers the byte of stack id
Covers(rp, id) == rp.alloc_id = id[1] /\ rp.run = id[2] /\ id[3] \in bytes_range(rp)
\* Whether a borrow of stack carries tag
OnStack(stack, tag) == \E i \in DOMAIN stack : stack[i].tag = tag
\* The tags and kinds the claims pass: those of the callers, a tag no caller
\* has used, and Raw
AnyTag == Tags \cup {3}
AnyBorrowType == BorrowTypes \cup {"Raw"}

\* C13 as stated: for every run pointer, kind and tag A, add_ref followed by
\* a remove_tag that completes leaves can_read_with(range, A) false and no
\* side-table entry for A.
C13_Original ==
    \A rp \in RunPtrs(PT), borrow_type \in AnyBorrowType, A \in AnyTag :
        LET added == add_ref(memory, rp, borrow_type, A)
        IN  remove_tag_ok(added, A) =>
                /\ ~can_read_with(remove_tag(added, A), rp, A)
                /\ A \notin DOMAIN remove_tag(added, A).pointers

\* What C14 says of one stack, with the tag sought at or below the first
\* shared borrow (at) or strictly below it (not at)
WritableStack(stack, tag, at) ==
    LET shared == {i \in DOMAIN stack : stack[i].borrow_type = "Shared"}
    IN  /\ \A i \in shared : \A j \in i..Len(stack) : ~stack[j].protected
        /\ \E p \in DOMAIN stack :
              /\ stack[p].tag = tag
              /\ \A i \in shared : IF at THEN p <= i ELSE p < i

\* C14 as stated: can_write_with holds exactly when, in every covered
\* stack, nothing at or above the first shared borrow is protected and the
\* tag occurs below or at the first shared borrow.
C14_Original ==
    \A rp \in RunPtrs(PT), tag \in AnyTag :
        can_write_with(memory, rp, tag) <=>
            \A id \in StackIds(memory) :
                Covers(rp, id) => WritableStack(StackAt(memory, id), tag, TRUE)

\* C14 (amended): the same with the tag strictly below the first shared
\* borrow: the tag of the first shared borrow itself cannot write.
C14_WritableStrictlyBelowShared ==
    \A rp \in RunPtrs(PT), tag \in AnyTag :
        can_write_with(memory, rp, tag) <=>
            \A id \in StackIds(memory) :
                Covers(rp, id) => WritableStack(StackAt(memory, id), tag, FALSE)

\* add_ref has just pushed a shared borrow on an exclusive one: the
\* exclusive borrow's tag can write, the shared borrow's tag cannot
C14_Witness ==
    /\ last = "add_ref"
    /\ \E rp \in RunPtrs(PT), id \in StackIds(memory) :
          /\ Covers(rp, id)
          /\ Len(StackAt(memory, id)) = 2
          /\ StackAt(memory, id)[1].borrow_type = "Exclusive"
          /\ StackAt(memory, id)[2].borrow_type = "Shared"
          /\ StackAt(memory, id)[1].tag # StackAt(memory, id)[2].tag
          /\ can_write_with(memory, rp, StackAt(memory, id)[1].tag)
          /\ ~can_write_with(memory, rp, StackAt(memory, id)[2].tag)

\* C15 as stated: can_write_with is false whenever some covered stack has
\* the tag at a position with a protected borrow strictly above it and a
\* shared borrow at or above it.
C15_Original ==
    \A rp \in RunPtrs(PT), tag \in AnyTag :
        (\E id \in StackIds(memory) :
            /\ Covers(rp, id)
            /\ LET stack == StackAt(memory, id)
               IN  \E p, j, k \in DOMAIN stack :
                      /\ stack[p].tag = tag
                      /\ j > p /\ stack[j].protected
                      /\ k >= p /\ stack[k].borrow_type = "Shared")
            => ~can_write_with(memory, rp, tag)

\* C15 (amended): can_write_with is false whenever some covered stack has
\* the tag at a position with a protected borrow strictly above it and a
\* shared borrow at or above it that is not above the protected borrow: a
\* protected borrow between the tag and the first shared borrow does not
\* stop the write.
C15_ProtectedAboveSharedBlocksWrite ==
    \A rp \in RunPtrs(PT), tag \in AnyTag :
        (\E id \in StackIds(memory) :
            /\ Covers(rp, id)
            /\ LET stack == StackAt(memory, id)
               IN  \E p, j, k \in DOMAIN stack :
                      /\ stack[p].tag = tag
                      /\ j > p /\ stack[j].protected
                      /\ k >= p /\ k <= j /\ stack[k].borrow_type = "Shared")
            => ~can_write_with(memory, rp, tag)

\* mark_protected has just protected a shared borrow that lies above an
\* exclusive one: the exclusive borrow's tag is below the first shared
\* borrow and cannot write
C15_Witness ==
    /\ last = "mark_protected"
    /\ \E rp \in RunPtrs(PT), id \in StackIds(memory) :
          /\ Covers(rp, id)
          /\ Len(StackAt(memory, id)) >= 2
          /\ StackAt(memory, id)[1].borrow_type = "Exclusive"
          /\ ~StackAt(memory, id)[1].protected
          /\ StackAt(memory, id)[2].borrow_type = "Shared"
          /\ StackAt(memory, id)[2].protected
          /\ StackAt(memory, id)[1].tag # StackAt(memory, id)[2].tag
          /\ ~can_write_with(memory, rp, StackAt(memory, id)[1].tag)

\* What remove_tags_above(tag, rp) is to do to the stacks: a covered stack
\* that holds the tag keeps what is below the tag's first borrow and nothing
\* else, and every other stack is as it was
TruncatedAbove(m0, m1, tag, rp) ==
    /\ StackIds(m1) = StackIds(m0)
    /\ \A id \in StackIds(m0) :
          LET before == StackAt(m0, id)
              after == StackAt(m1, id)
          IN  IF Covers(rp, id) /\ OnStack(before, tag)
              THEN /\ ~OnStack(after, tag)
                   /\ \E n \in 0..Len(before) :
                         /\ after = SubSeq(before, 1, n)
                         /\ before[n + 1].tag = tag
              ELSE after = before

\* The tags remove_tags_above took off a stack
TagsRemoved(m0, m1) ==
    UNION {{StackAt(m0, id)[i].tag : i \in (Len(StackAt(m1, id)) + 1)..Len(StackAt(m0, id))} :
           id \in StackIds(m0)}

\* C16 as stated: the stacks are truncated as above, bytes are untouched,
\* and the result holds every tag taken off a stack.
C16_Original ==
    \A rp \in RunPtrs(PT), tag \in AnyTag :
        LET after == remove_tags_above(memory, tag, rp)
        IN  /\ TruncatedAbove(memory, after, tag, rp)
            /\ TagsRemoved(memory, after) \subseteq all_gone(memory, tag, rp)

\* C16 (amended): the stacks are truncated as above, and the result holds
\* exactly the tags taken off a stack that have no side-table entry once
\* the call is done.
C16_TruncatesReturnsGoneTags ==
    \A rp \in RunPtrs(PT), tag \in AnyTag :
        LET after == remove_tags_above(memory, tag, rp)
        IN  /\ TruncatedAbove(memory, after, tag, rp)
            /\ all_gone(memory, tag, rp)
                  = TagsRemoved(memory, after) \ DOMAIN after.pointers

\* remove_tags_above has just emptied the stack of one byte and left the
\* other byte's stack, which does not hold the tag, as it was
C16_Witness ==
    /\ last = "remove_tags_above"
    /\ \E a, b \in StackIds(memory) :
          /\ StackAt(memory, a) = <<>>
          /\ Len(StackAt(memory, b)) = MaxBorrows

\* The protected borrows of every stack, in order
ProtectedOf(mem) ==
    [id \in StackIds(mem) |-> SelectSeq(StackAt(mem, id), LAMBDA b : b.protected)]

\* C17 as stated: a remove_tag, remove_tag_run_ptr or remove_tags_above
\* that completes leaves every protected borrow on its stack.
C17_Original ==
    /\ \A tag \in AnyTag :
          remove_tag_ok(memory, tag) =>
              ProtectedOf(remove_tag(memory, tag)) = ProtectedOf(memory)
    /\ \A rp \in RunPtrs(PT), tag \in AnyTag :
          /\ remove_borrow_ok(memory, rp, tag) =>
                ProtectedOf(remove_tag_run_ptr(memory, tag, rp)) = ProtectedOf(memory)
          /\ ProtectedOf(remove_tags_above(memory, tag, rp)) = ProtectedOf(memory)

\* The selectors a caller can build: a usage, at most one type (one of them
\* absent from every table) and at most one excluded place
SelTys == {"i8", "*i8", "i64"}
Selectors(t) ==
    LET base == {for_pointee, for_operand, for_argument, for_lhs, for_known_val}
        typed == base \cup {of_ty(sel, ty) : sel \in base, ty \in SelTys}
    IN  typed \cup {except(sel, pl) : sel \in typed, pl \in PlaceExprs(t)}

\* The places reachable_nodes yields
ReachablePlaces(t) ==
    {target_index(t, reachable_nodes(t)[i]) : i \in DOMAIN reachable_nodes(t)}

\* The return destinations that frames of the call stack record (the fn0
\* frame records none: its destination is no place)
ReturnDests(t) ==
    {t.frames[i].return_destination : i \in DOMAIN t.frames} \cap DOMAIN t.places

\* What a selector asks of a place
Eligible(sel, t, n) ==
    /\ is_place_live(t, n)
    /\ sel.tys # <<>> => t.places[n].ty \in Range(sel.tys)
    /\ \A i \in DOMAIN sel.exclusions :
          ~overlap(t, n, Unwrap(get_node(t, sel.exclusions[i])))
    /\ \A d \in ReturnDests(t) : ~overlap(t, n, d)
    /\ sel.allow_uninit \/ is_place_init(t, n)
    /\ sel.usage = "KnownVal" => known_val(t, n) # None

\* C18: into_weighted returns None whenever no reachable place passes the
\* selector's filters or the candidates' weights sum to zero, and otherwise
\* a non-empty list of candidates with one weight for each.
C18_ExhaustedOrWeighted ==
    \A sel \in Selectors(PT) :
        IF \/ ~\E n \in ReachablePlaces(PT) : Eligible(sel, PT, n)
           \/ SeqSum(weights(sel.usage, PT, into_iter_path(sel, PT))) = 0
        THEN into_weighted(sel, PT) = None
        ELSE /\ into_weighted(sel, PT) # None
             /\ Unwrap(into_weighted(sel, PT))[1] # <<>>
             /\ Len(Unwrap(into_weighted(sel, PT))[1]) = Len(Unwrap(into_weighted(sel, PT))[2])

\* A table where a selector for an absent type and an operand selector whose
\* candidates all have dataflow zero are exhausted, and a left-hand-side
\* selector is not
C18_Witness ==
    /\ into_weighted(of_ty(for_lhs, "i64"), PT) = None
    /\ into_iter_path(for_lhs, PT) # <<>>
    /\ into_iter_path(for_operand, PT) # <<>>
    /\ into_weighted(for_operand, PT) = None
    /\ into_weighted(for_lhs, PT) # None

\* C19: the places a selector yields are exactly the reachable places that
\* are live, of a type of the selector's type set when it has one,
\* overlapping neither an excluded place nor the return destination a frame
\* of the call stack records, initialized unless the selector allows
\* uninitialized places, and with a cached literal when the usage is
\* known-value.
C19_YieldsExactlyEligible ==
    \A sel \in Selectors(PT) :
        {target_index(PT, into_iter_path(sel, PT)[i]) : i \in DOMAIN into_iter_path(sel, PT)}
            = {n \in ReachablePlaces(PT) : Eligible(sel, PT, n)}

\* In a callee whose argument points at the place its caller takes the
\* return value in: the pointee is reachable, live and initialized, and no
\* selector yields it
C19_Witness ==
    /\ Len(frames) = 2
    /\ \E n \in ReachablePlaces(PT) :
          /\ n \in ReturnDests(PT)
          /\ is_place_init(PT, n)
          /\ \A sel \in Selectors(PT) :
                \A i \in DOMAIN into_iter_path(sel, PT) :
                    target_index(PT, into_iter_path(sel, PT)[i]) # n
    /\ into_iter_path(for_operand, PT) # <<>>

\* The locals of the active frame that are live and unmoved and hold the
\* integer i
IndexLocals(t, i) ==
    {l[1] : l \in {m \in current_frame(t).locals :
                      /\ is_place_live(t, m[2])
                      /\ ~is_place_moved(t, m[2])
                      /\ known_val(t, m[2]) = Some(Usize(i))}}

\* C20: a path that reachable_nodes yields goes through a constant-index
\* edge with offset i only if a live, unmoved local of the active frame
\* holds the integer i, and to_place rewrites every such edge of the path
\* into an Index of such a local.
C20_IndexedOnlyWithLocal ==
    \A k \in DOMAIN reachable_nodes(PT) :
        /\ to_place_ok(PT, reachable_nodes(PT)[k])
        /\ \A j \in DOMAIN reachable_nodes(PT)[k].path :
              LET proj == edge_proj(PT, reachable_nodes(PT)[k].path[j])
                  rewritten == to_place(PT, reachable_nodes(PT)[k]).projection[j]
              IN  IF proj.kind = "ConstantIndex"
                  THEN /\ IndexLocals(PT, proj.idx) # {}
                       /\ rewritten.kind = "Index"
                       /\ rewritten.idx \in IndexLocals(PT, proj.idx)
                  ELSE rewritten = proj

\* The element at offset 1 is reachable and the element at offset 0 is not:
\* the one local that holds an integer holds 1, and to_place names the
\* element by indexing with that local
C20_Witness ==
    /\ \E k \in DOMAIN reachable_nodes(PT) :
          /\ Len(reachable_nodes(PT)[k].path) = 1
          /\ edge_proj(PT, reachable_nodes(PT)[k].path[1]) = ConstantIndex(1)
          /\ to_place(PT, reachable_nodes(PT)[k]).projection[1].kind = "Index"
          /\ get_node(PT, to_place(PT, reachable_nodes(PT)[k]))
                = Some(target_index(PT, reachable_nodes(PT)[k]))
    /\ ~\E k \in DOMAIN reachable_nodes(PT) :
          \E j \in DOMAIN reachable_nodes(PT)[k].path :
              edge_proj(PT, reachable_nodes(PT)[k].path[j]) = ConstantIndex(0)

\* The pointers that are locals of the active frame and have a pointee
RootPointers(t) ==
    {l[2] : l \in {m \in current_frame(t).locals :
                      is_any_ptr(t.places[m[2]].ty) /\ pointee(t, m[2]) # None}}

\* reachable_from_node(p) yields p's pointee through p's deref edge
PointeeEnumerated(t, p) ==
    \E i \in DOMAIN reachable_from_node(t, p) :
        /\ Len(reachable_from_node(t, p)[i].path) = 1
        /\ is_deref(edge_proj(t, reachable_from_node(t, p)[i].path[1]))
        /\ target_index(t, reachable_from_node(t, p)[i]) = Unwrap(pointee(t, p))

\* C21: the pointee of a root pointer is enumerated iff the pointer's
\* accumulated offset is unset or zero; offsetting such a pointer by k # 0
\* takes the pointee out of the enumeration and offsetting it by -k again
\* brings it back with has_offset_roundtripped true; set_ref resets the
\* offset to unset.
C21_PointeeEnumeratedIffNotOffset ==
    \A p \in RootPointers(PT) :
        /\ PointeeEnumerated(PT, p) <=> get_offset(PT, p) \in {None, Some(0)}
        /\ get_offset(PT, p) \in {None, Some(0)} =>
              \A k \in Isize \ {0} :
                  /\ ~PointeeEnumerated(offset_ptr(PT, p, k), p)
                  /\ has_offset_roundtripped(
                         offset_ptr(offset_ptr(PT, p, k), p, wrapping_add(0, -k)), p)
                  /\ PointeeEnumerated(
                         offset_ptr(offset_ptr(PT, p, k), p, wrapping_add(0, -k)), p)
        /\ \A q \in Nameable(PT) :
              set_ref_ok(PT, p, q) => get_offset(set_ref(PT, p, q), p) = None

\* offset_ptr has just brought a pointer with a pointee back to offset
\* zero, while another pointer to the same place is still offset
C21_Witness ==
    /\ last = "offset_ptr"
    /\ \E p, r \in RootPointers(PT) :
          /\ has_offset_roundtripped(PT, p)
          /\ PointeeEnumerated(PT, p)
          /\ offseted(PT, r)
          /\ ~PointeeEnumerated(PT, r)
          /\ pointee(PT, p) = pointee(PT, r)

\* C22: while a callee frame is on top, a local id of the caller resolves
\* to the callee's place when the callee declares the id too, and does not
\* resolve (is_place_live is false) when it does not; after exit_fn the id
\* resolves to the caller's place again.
C22_NamesResolveInTopFrame ==
    Len(frames) = 2 =>
        \A l \in frames[1].locals :
            /\ IF get_by_local(frames[2], l[1]) # None
               THEN /\ get_node(PT, from_local(l[1])) = get_by_local(frames[2], l[1])
                    /\ get_node(PT, from_local(l[1])) # Some(l[2])
               ELSE /\ get_node(PT, from_local(l[1])) = None
                    /\ ~is_place_live_at(PT, from_local(l[1]))
            /\ exit_fn_ok(PT) => get_node(exit_fn(PT), from_local(l[1])) = Some(l[2])

\* A callee is on top that declares one of the caller's two local ids and
\* not the other, and the caller's locals are live
C22_Witness ==
    /\ Len(frames) = 2
    /\ exit_fn_ok(PT)
    /\ \E l, m \in frames[1].locals :
          /\ get_by_local(frames[2], l[1]) # None
          /\ get_by_local(frames[2], m[1]) = None
          /\ is_place_live(PT, l[2])
          /\ is_place_live(PT, m[2])

\* Every place index of t0 denotes in t1 the node it denoted in t0: the
\* same type, allocation, run and subfields
SameNodes(t0, t1) ==
    /\ place_count(t1) >= place_count(t0)
    /\ \A n \in DOMAIN t0.places :
          /\ t1.places[n].ty = t0.places[n].ty
          /\ t1.places[n].alloc_id = t0.places[n].alloc_id
          /\ t1.places[n].run_ptr = t0.places[n].run_ptr
          /\ immediate_subfields(t1, n) = immediate_subfields(t0, n)

\* The place n and its transitive subfields are reported dead and
\* uninitialized
ReportedDead(t, n) ==
    \A m \in Range(transitive_subfields(t, n)) :
        ~is_place_live(t, m) /\ ~is_place_init(t, m)

\* C23: deallocate_local, a moved argument and exit_fn remove and renumber
\* no place node, and afterwards is_place_live and is_place_init are false
\* for each deallocated local and each of its transitive subfields.
C23_DeallocationKeepsNodes ==
    /\ \A l \in current_frame(PT).locals :
          /\ SameNodes(PT, deallocate_local(PT, l[1]))
          /\ ReportedDead(deallocate_local(PT, l[1]), l[2])
    /\ \A c \in Calls(PT, CallBodies) :
          /\ SameNodes(PT, enter_fn(PT, c.body, c.operands, c.dest))
          /\ \A i \in DOMAIN c.operands :
                c.operands[i].kind = "Move" =>
                    ReportedDead(enter_fn(PT, c.body, c.operands, c.dest),
                                 SrcOf(PT, c.operands[i]))
    /\ exit_fn_ok(PT) =>
          /\ SameNodes(PT, exit_fn(PT))
          /\ \A l \in current_frame(PT).locals : ReportedDead(exit_fn(PT), l[2])

\* enter_fn has just moved an initialized tuple into a call: the tuple and
\* its field are still nodes of the table and are reported dead, and the
\* callee can return
C23_Witness ==
    /\ last = "enter_fn"
    /\ exit_fn_ok(PT)
    /\ \E l \in frames[1].locals :
          /\ places[l[2]].ty = "(i8,)"
          /\ is_place_moved(PT, l[2])
          /\ ReportedDead(PT, l[2])
          /\ Len(transitive_subfields(PT, l[2])) = 2
    /\ \E l \in frames[1].locals : is_place_live(PT, l[2])

\* The orders in which a hash map can yield the places of a frame's locals
ValueOrders(frame) ==
    {o \in [1..Cardinality(frame.locals) -> {l[2] : l \in frame.locals}] :
        \A i, j \in DOMAIN o : i # j => o[i] # o[j]}

\* What a caller sees of a table through the selectors: for each usage the
\* candidates in order with their weights, and the place expression of
\* each candidate
Selected(t) ==
    [sel \in {for_pointee, for_operand, for_argument, for_lhs, for_known_val} |->
        <<into_weighted(sel, t),
          AsSeq([i \in DOMAIN into_iter_path(sel, t) |->
                    to_place(t, into_iter_path(sel, t)[i])])>>]

\* C24: the state an operation leaves does not depend on the order in which
\* a hash map is iterated (exit_fn is the one operation that iterates one),
\* so two runs of the same operations reach the same state, and the
\* selectors yield the same candidates in the same order with the same
\* weights and place expressions.
C24_Deterministic ==
    exit_fn_ok(PT) =>
        \A o1, o2 \in ValueOrders(current_frame(PT)) :
            /\ exit_fn_in_order(PT, o1) = exit_fn_in_order(PT, o2)
            /\ exit_fn_in_order(PT, o1) = exit_fn(PT)
            /\ Selected(exit_fn_in_order(PT, o1)) = Selected(exit_fn_in_order(PT, o2))

\* A callee with two locals can return, so that its locals can be visited
\* in two orders, and a selector has a candidate in the caller after the
\* return
C24_Witness ==
    /\ exit_fn_ok(PT)
    /\ Cardinality(ValueOrders(current_frame(PT))) = 2
    /\ into_weighted(for_operand, exit_fn(PT)) # None

\* The candidates of selector sel with their weights, as into_weighted
\* returns them: <<path, weight>> pairs (none when it returns None)
Weighted(sel, t) ==
    IF into_weighted(sel, t) = None THEN {}
    ELSE {<<Unwrap(into_weighted(sel, t))[1][i], Unwrap(into_weighted(sel, t))[2][i]>> :
            i \in DOMAIN Unwrap(into_weighted(sel, t))[1]}

\* 2 when the access path goes through a dereference, else 1
ThroughDeref(t, ppath) ==
    IF \E j \in DOMAIN projections(t, ppath) : projections(t, ppath)[j] = Deref
    THEN 2 ELSE 1

\* 2 when the path starts at the return slot of the active frame, else 1
FromReturnSlot(t, ppath) ==
    IF get_node(t, RETURN_SLOT) = Some(ppath.source) THEN 2 ELSE 1

\* 2 when the place is uninitialized, else 1
Uninit(t, n) == IF is_place_init(t, n) THEN 1 ELSE 2

\* C25: a left-hand-side candidate weighs b * r * 1000 / max(d, 1), times 2
\* through a dereference, with b = 2 when uninitialized, r = 2 when it is
\* the return slot or a projection of it and d its current dataflow; the
\* weight is never zero, and of two candidates that differ in dataflow only
\* the one with more dataflow never weighs more.
C25_LhsWeight ==
    /\ \A c \in Weighted(for_lhs, PT) :
          /\ c[2] = ((Uninit(PT, target_index(PT, c[1])) * FromReturnSlot(PT, c[1]) * 1000)
                      \div Max2(get_dataflow(PT, target_index(PT, c[1])), 1))
                     * ThroughDeref(PT, c[1])
          /\ c[2] # 0
    /\ \A c1, c2 \in Weighted(for_lhs, PT) :
          (/\ Uninit(PT, target_index(PT, c1[1])) = Uninit(PT, target_index(PT, c2[1]))
           /\ FromReturnSlot(PT, c1[1]) = FromReturnSlot(PT, c2[1])
           /\ ThroughDeref(PT, c1[1]) = ThroughDeref(PT, c2[1])
           /\ get_dataflow(PT, target_index(PT, c1[1]))
                 > get_dataflow(PT, target_index(PT, c2[1])))
              => c1[2] <= c2[2]

\* In a callee: the uninitialized return slot weighs 4000, and the
\* initialized argument, a pointer whose dataflow is the capped 100 of its
\* pointee, weighs 10
C25_Witness ==
    /\ Len(frames) = 2
    /\ \E c \in Weighted(for_lhs, PT) :
          get_node(PT, RETURN_SLOT) = Some(target_index(PT, c[1])) /\ c[2] = 4000
    /\ \E c \in Weighted(for_lhs, PT) :
          /\ is_place_init(PT, target_index(PT, c[1]))
          /\ get_dataflow(PT, target_index(PT, c[1])) = 100
          /\ c[2] = 10

C27_Original ==
    /\ \A sel \in {for_operand, for_known_val} : \A c \in Weighted(sel, PT) :
          c[2] = dataflow(PT, target_index(PT, c[1])) * ThroughDeref(PT, c[1])
    /\ \A c \in Weighted(for_pointee, PT) : c[2] = ThroughDeref(PT, c[1])
    /\ \A c \in Weighted(for_operand, PT) :
          dataflow(PT, target_index(PT, c[1])) = 0 => c[2] = 0

\* C27 (amended): an operand or known-value candidate weighs the dataflow
\* get_dataflow reports for it, which for a pointer with a pointee is its
\* pointee's, and a pointee candidate 1, each times 2 exactly through a
\* dereference; an operand candidate for which get_dataflow reports 0 is
\* never drawn.
C27_WeightIsReportedDataflow ==
    /\ \A sel \in {for_operand, for_known_val} : \A c \in Weighted(sel, PT) :
          c[2] = get_dataflow(PT, target_index(PT, c[1])) * ThroughDeref(PT, c[1])
    /\ \A c \in Weighted(for_pointee, PT) : c[2] = ThroughDeref(PT, c[1])
    /\ \A c \in Weighted(for_operand, PT) :
          get_dataflow(PT, target_index(PT, c[1])) = 0 => c[2] = 0

\* An initialized pointer whose own score is 0 and whose pointee's is 3 is
\* an operand candidate of weight 3, and its pointee is a candidate of
\* weight 6 through the dereference
C27_Witness ==
    /\ \E c \in Weighted(for_operand, PT) :
          /\ is_any_ptr(places[target_index(PT, c[1])].ty)
          /\ dataflow(PT, target_index(PT, c[1])) = 0
          /\ c[2] = 3
    /\ \E c \in Weighted(for_operand, PT) : ThroughDeref(PT, c[1]) = 2 /\ c[2] = 6
    /\ \E c \in Weighted(for_pointee, PT) : c[2] = 2

\* The array places of the table
Arrays(t) == {a \in DOMAIN t.places : kind(t.places[a].ty).k = "Array"}

\* Local l of the active frame, at place n, holds the usize value v
HoldsIndex(t, n, v) == known_val(t, n) = Some(Usize(v))

\* Index(l) from array a resolves as ConstantIndex(v) does: to the element
\* v of a, in a's allocation and at byte v * element size of a's run, or to
\* no place when a has no element v
ResolvesAsConstant(t, a, l, v) ==
    /\ project_ok(t, Index(l))
    /\ project_from_node(t, a, Index(l)) = project_from_node(t, a, ConstantIndex(v))
    /\ IF v < Len(kind(t.places[a].ty).elems)
       THEN /\ project_from_node(t, a, Index(l)) # None
            /\ LET elem == t.places[Unwrap(project_from_node(t, a, Index(l)))]
               IN  /\ elem.ty = kind(t.places[a].ty).elems[v + 1]
                   /\ elem.alloc_id = t.places[a].alloc_id
                   /\ t.places[a].run_ptr # None =>
                         elem.run_ptr = Some(RunPointer(
                             t.places[a].alloc_id,
                             Unwrap(t.places[a].run_ptr).run,
                             Unwrap(t.places[a].run_ptr).offset + v * Unwrap(ty_size(elem.ty)),
                             Unwrap(ty_size(elem.ty))))
       ELSE project_from_node(t, a, Index(l)) = None

\* C28 as stated: Index(l) resolves as the constant index of the value l
\* holds, and to no place when l holds no usize value.
C28_Original ==
    \A a \in Arrays(PT), l \in current_frame(PT).locals :
        IF \E v \in 0..2 : HoldsIndex(PT, l[2], v)
        THEN \A v \in 0..2 : HoldsIndex(PT, l[2], v) => ResolvesAsConstant(PT, a, l[1], v)
        ELSE project_ok(PT, Index(l[1])) /\ project_from_node(PT, a, Index(l[1])) = None

\* C28 (amended): Index(l) resolves as the constant index of the value l
\* holds, to no place when the array has no element of that index, and
\* the resolution aborts when l holds no usize value.
C28_IndexResolvesOrAborts ==
    \A a \in Arrays(PT), l \in current_frame(PT).locals :
        IF \E v \in 0..2 : HoldsIndex(PT, l[2], v)
        THEN \A v \in 0..2 : HoldsIndex(PT, l[2], v) => ResolvesAsConstant(PT, a, l[1], v)
        ELSE ~project_ok(PT, Index(l[1]))

\* assign_literal has just given a local the index 1, which names the
\* second element of an array, and the array itself holds no index
C28_Witness ==
    /\ last = "assign_literal"
    /\ \E a \in Arrays(PT), l, m \in current_frame(PT).locals :
          /\ HoldsIndex(PT, l[2], 1)
          /\ project_from_node(PT, a, Index(l[1])) # None
          /\ m[2] = a
          /\ ~project_ok(PT, Index(m[1]))

\* The places a caller may hand to an operation, resolving or not: a local
\* id, declared in the active frame or not, and at most one projection
CandidateProjs ==
    {<<>>, <<Deref>>, <<Field(0)>>, <<ConstantIndex(0)>>, <<Index(1)>>}
CandidatePlaces == [local : 1..4, projection : CandidateProjs]

\* The place does not resolve to a graph node: its resolution yields no
\* node, or aborts
Unresolvable(t, place) ==
    IF get_node_ok(t, place) THEN get_node(t, place) = None ELSE TRUE

\* The nodes the candidate places resolve to
Resolved(t) ==
    {Unwrap(get_node(t, p)) : p \in {q \in CandidatePlaces : place_exists(t, q)}}

\* The place resolves to a node whose allocation is dead
ResolvesDead(t, place) ==
    IF place_exists(t, place) THEN ~is_place_live(t, Unwrap(get_node(t, place)))
    ELSE FALSE

\* The node has bytes, its own or its subfields'
TouchesBytes(t, n) ==
    \E m \in Range(transitive_subfields(t, n)) : t.places[m].run_ptr # None

\* mark_place_init and mark_place_uninit return normally
mark_place_returns(t, place) ==
    IF place_exists(t, place) THEN mark_ok(t, Unwrap(get_node(t, place))) ELSE FALSE

\* copy_place returns normally
copy_place_returns(t, dst, src) ==
    IF place_exists(t, dst) /\ place_exists(t, src)
    THEN copy_place_ok(t, Unwrap(get_node(t, dst)), Unwrap(get_node(t, src)))
    ELSE FALSE

\* The violations abort: an operation on a place that does not resolve, a
\* mark or a copy that touches dead bytes, a copy between different types
ViolationsAbort(t) ==
    /\ \A p \in {q \in CandidatePlaces : Unresolvable(t, q)} :
          /\ ~place_exists(t, p)
          /\ ~mark_place_returns(t, p)
          /\ \A l \in 1..4 :
                /\ ~copy_place_returns(t, p, from_local(l))
                /\ ~copy_place_returns(t, from_local(l), p)
    /\ LET nodes == Resolved(t)
       IN  \A a \in nodes :
               /\ ~is_place_live(t, a) /\ TouchesBytes(t, a) => ~mark_ok(t, a)
               /\ \A b \in nodes \ {a} :
                     /\ t.places[a].ty # t.places[b].ty => ~copy_place_ok(t, a, b)
                     /\ (~is_place_live(t, a) \/ ~is_place_live(t, b)) /\ TouchesBytes(t, b)
                          => ~copy_place_ok(t, a, b)

\* C29 as stated: the violations abort, and is_place_live and
\* is_place_init of a dead or unresolvable place return false without
\* aborting.
C29_Original ==
    /\ ViolationsAbort(PT)
    /\ \A p \in CandidatePlaces :
          Unresolvable(PT, p) \/ ResolvesDead(PT, p) =>
              /\ get_node_ok(PT, p)
              /\ ~is_place_live_at(PT, p)
              /\ ~is_place_init_at(PT, p)

\* C29 (amended): the violations abort, and is_place_live and
\* is_place_init of a dead or unresolvable place return false without
\* aborting unless the resolution of the place itself aborts, which it
\* does on an index projection whose local holds no usize value.
C29_ViolationsAbortQueriesReturnFalse ==
    /\ ViolationsAbort(PT)
    /\ \A p \in CandidatePlaces :
          Unresolvable(PT, p) \/ ResolvesDead(PT, p) =>
              IF get_node_ok(PT, p)
              THEN ~is_place_live_at(PT, p) /\ ~is_place_init_at(PT, p)
              ELSE p.projection = <<Index(1)>> /\ ~project_ok(PT, Index(1))

\* deallocate_local has just killed a tuple whose field is initialized: the
\* tuple is dead and has bytes, a live local of another type and a name
\* that resolves to nothing exist beside it
C29_Witness ==
    /\ last = "deallocate_local"
    /\ \E p, q, r \in CandidatePlaces :
          /\ ResolvesDead(PT, p)
          /\ TouchesBytes(PT, Unwrap(get_node(PT, p)))
          /\ p.projection = <<>>
          /\ kind(PT.places[Unwrap(get_node(PT, p))].ty).k = "Tuple"
          /\ PT.places[Unwrap(get_node(PT, p))].run_ptr = None
          /\ is_place_init_bytes(PT, Unwrap(get_node(PT, p)))
          /\ place_exists(PT, q)
          /\ ~ResolvesDead(PT, q)
          /\ PT.places[Unwrap(get_node(PT, q))].ty = "usize"
          /\ get_node_ok(PT, r)
          /\ Unresolvable(PT, r)

\* The bytes the side table records for tag, as borrow stacks
Recorded(mem, tag) ==
    IF tag \in DOMAIN mem.pointers
    THEN {id \in StackIds(mem) :
             \E k \in DOMAIN mem.pointers[tag] : Covers(mem.pointers[tag][k], id)}
    ELSE {}

\* C30 as stated: after any sequence of add_ref, remove_tag,
\* remove_tag_run_ptr, remove_tags_above and mark_protected, the bytes the
\* side table records for a tag are exactly the bytes whose borrow stack
\* holds the tag, and the tag has no entry iff it is on no stack.
C30_Original ==
    \A tag \in AnyTag :
        /\ Recorded(memory, tag) =
              {id \in StackIds(memory) : OnStack(StackAt(memory, id), tag)}
        /\ tag \notin DOMAIN memory.pointers
              <=> \A id \in StackIds(memory) : ~OnStack(StackAt(memory, id), tag)

\* C31: in every state reachable by allocate_local, update_dataflow,
\* copy_place, set_ref, enter_fn0, enter_fn and exit_fn, every place with an
\* immediate non-deref child has the maximum of its immediate children's
\* dataflow, and every place's dataflow lies in 0..100.
C31_DataflowIsMaxOfChildren ==
    \A n \in Nodes :
        /\ dataflow(PT, n) \in 0..100
        /\ Children(PT, n) # {} =>
              dataflow(PT, n) = MaxOf({dataflow(PT, c) : c \in Children(PT, n)})

\* set_ref has just pointed the pointer of a tuple at an integer of
\* dataflow 100, in a table that holds another tuple of lower dataflow
C31_Witness ==
    /\ last = "set_ref"
    /\ \E n, m \in Nodes :
          /\ Children(PT, n) # {}
          /\ dataflow(PT, n) = 100
          /\ \E c \in Children(PT, n) : pointee(PT, c) # None
          /\ Children(PT, m) # {}
          /\ dataflow(PT, m) < 100

\* C32 as stated: a node has a run pointer iff its type has a fixed size
\* and the node has no non-deref child; tuples and structs have none.
C32_Original ==
    \A n \in Nodes :
        /\ PT.places[n].run_ptr # None
              <=> (ty_size(PT.places[n].ty) # None /\ Children(PT, n) = {})
        /\ kind(PT.places[n].ty).k \in {"Tuple", "Adt"} => PT.places[n].run_ptr = None

\* C32 (amended): a node has a run pointer iff its type has a fixed size;
\* such a node has no non-deref child unless it is an array, whose elements
\* then lie in its run; tuples and structs have none.
C32_RunPointerIffFixedSize ==
    \A n \in Nodes :
        /\ PT.places[n].run_ptr # None <=> ty_size(PT.places[n].ty) # None
        /\ PT.places[n].run_ptr # None /\ Children(PT, n) # {} =>
              /\ kind(PT.places[n].ty).k = "Array"
              /\ \A c \in Children(PT, n) :
                    /\ PT.places[c].run_ptr # None
                    /\ Unwrap(PT.places[c].run_ptr).run = Unwrap(PT.places[n].run_ptr).run
                    /\ bytes_range(Unwrap(PT.places[c].run_ptr))
                          \subseteq bytes_range(Unwrap(PT.places[n].run_ptr))
        /\ kind(PT.places[n].ty).k \in {"Tuple", "Adt"} => PT.places[n].run_ptr = None

\* allocate_local has just declared an array of bytes, which has a run
\* pointer and two elements that have one
C32_Witness ==
    /\ last = "allocate_local"
    /\ \E n \in Nodes :
          /\ n = Len(PT.places) - 2
          /\ kind(PT.places[n].ty).k = "Array"
          /\ PT.places[n].run_ptr # None
          /\ Cardinality(Children(PT, n)) = 2
          /\ \A c \in Children(PT, n) : PT.places[c].run_ptr # None

\* C33: every pointer-typed place has at most one outgoing edge, a deref
\* edge; set_ref(r, q) leaves r exactly one edge, a deref edge to q,
\* whatever r pointed at before, and aborts when q's type is not the
\* pointee type of r.
C33_OneDerefEdge ==
    /\ \A n \in Nodes :
          is_any_ptr(PT.places[n].ty) =>
              /\ Len(edges_out(PT, n)) <= 1
              /\ \A i \in DOMAIN edges_out(PT, n) : is_deref(edge_proj(PT, edges_out(PT, n)[i]))
    /\ \A r, q \in Nodes :
          is_any_ptr(PT.places[r].ty) =>
              IF pointee_ty(PT.places[r].ty) = PT.places[q].ty
              THEN /\ set_ref_ok(PT, r, q)
                   /\ Len(edges_out(set_ref(PT, r, q), r)) = 1
                   /\ is_deref(edge_proj(set_ref(PT, r, q), edges_out(set_ref(PT, r, q), r)[1]))
                   /\ pointee(set_ref(PT, r, q), r) = Some(q)
              ELSE ~set_ref_ok(PT, r, q)

\* set_ref has just pointed a pointer at one of two places of its pointee
\* type
C33_Witness ==
    /\ last = "set_ref"
    /\ \E r, q, o \in Nodes :
          /\ pointee(PT, r) = Some(q)
          /\ o # q
          /\ PT.places[o].ty = PT.places[q].ty
          /\ Len(edges_out(PT, r)) = 1

\* C34: after mark_place_moved(p), p and every transitive non-deref
\* subfield of p are flagged moved and every strict ancestor of p is flagged
\* moved iff all its immediate children are; in every reachable state a
\* place with children is moved iff all its immediate children are moved.
C34_MovedIsAllChildrenMoved ==
    /\ \A p \in Nodes :
          /\ \A n \in Subtree(PT, p) : is_place_moved(mark_place_moved(PT, p), n)
          /\ \A a \in Ancestors(PT, p) :
                is_place_moved(mark_place_moved(PT, p), a)
                    <=> \A c \in Children(PT, a) : is_place_moved(mark_place_moved(PT, p), c)
    /\ \A n \in Nodes :
          Children(PT, n) # {} =>
              (is_place_moved(PT, n) <=> \A c \in Children(PT, n) : is_place_moved(PT, c))

\* mark_place_moved has just moved the inner tuple of a nested tuple whose
\* other fields are not moved: the inner tuple and its fields are flagged,
\* the outer tuple is not
C34_Witness ==
    /\ last = "mark_place_moved"
    /\ \E p \in Nodes :
          /\ Children(PT, p) # {}
          /\ Ancestors(PT, p) # {}
          /\ \A n \in Subtree(PT, p) : is_place_moved(PT, n)
          /\ \A a \in Ancestors(PT, p) :
                /\ ~is_place_moved(PT, a)
                /\ \E c \in Children(PT, a) : ~is_place_moved(PT, c)

\* The entries of the literal-index cache of t: value and local
Cached(t) ==
    UNION {{<<i, t.index_candidates[i][k]>> : k \in DOMAIN t.index_candidates[i]} :
            i \in DOMAIN t.index_candidates}

\* Every cached local is a local of the top frame of t and holds the usize
\* literal it is listed under
CacheOfTopFrame(t) ==
    \A e \in Cached(t) :
        /\ get_by_local(current_frame(t), e[2]) # None
        /\ known_val(t, Unwrap(get_by_local(current_frame(t), e[2]))) = Some(Usize(e[1]))

\* C35: the literal-index cache is invalidated at every frame push and
\* pop. Every local the cache lists under i is a local of the top frame
\* that holds the usize literal i; right after enter_fn the cache lists
\* argument locals of the callee alone, and right after exit_fn the local
\* that is the return destination alone: nothing recorded in another
\* frame.
C35_CacheOfTopFrameOnly ==
    /\ CacheOfTopFrame(PT)
    /\ \A c \in Calls(PT, CacheBodies) :
          /\ CacheOfTopFrame(enter_fn(PT, c.body, c.operands, c.dest))
          /\ \A e \in Cached(enter_fn(PT, c.body, c.operands, c.dest)) :
                e[2] \in 1..Len(c.body.args)
    /\ exit_fn_ok(PT) =>
          /\ CacheOfTopFrame(exit_fn(PT))
          /\ \A e \in Cached(exit_fn(PT)) :
                get_by_local(current_frame(exit_fn(PT)), e[2])
                    = Some(current_frame(PT).return_destination)

\* exit_fn has just returned to a caller that had cached a local before the
\* call: that local still holds its literal and the cache lists only the
\* return destination, under the value the callee returned
C35_Witness ==
    /\ last = "exit_fn"
    /\ Cached(PT) # {}
    /\ \E l \in current_frame(PT).locals :
          /\ known_val(PT, l[2]) # None
          /\ \A e \in Cached(PT) : e[2] # l[1]

\* The local ids a caller may declare
LocalIds == 0..3

\* The roots of the place graph: the nodes allocate_local returned
Roots(t) == {n \in 1..Len(t.places) : Ancestors(t, n) = {}}

\* The locals of a frame and their roots are in bijection
LocalsBijective(frame) ==
    \A l, m \in frame.locals : (l[1] = m[1]) <=> (l[2] = m[2])

\* C36: in each frame local ids and roots are in bijection. allocate_local
\* of an id the top frame does not hold registers a root no local of any
\* frame has; allocate_local of an id the top frame holds aborts, and a
\* deallocated local stays registered: every root is some frame's local.
C36_LocalsAndRootsBijective ==
    /\ \A f \in DOMAIN PT.frames : LocalsBijective(PT.frames[f])
    /\ \A n \in Roots(PT) : \E f \in DOMAIN PT.frames : get_by_index(PT.frames[f], n) # None
    /\ \A id \in LocalIds :
          IF get_by_local(current_frame(PT), id) # None
          THEN ~add_local_ok(current_frame(PT), id, Len(PT.places) + 1)
          ELSE /\ add_local_ok(current_frame(PT), id, Len(PT.places) + 1)
               /\ get_by_local(current_frame(allocate_local(PT, id, "i8")), id)
                      = Some(Len(PT.places) + 1)
               /\ \A f \in DOMAIN PT.frames :
                      get_by_index(PT.frames[f], Len(PT.places) + 1) = None
               /\ LocalsBijective(current_frame(allocate_local(PT, id, "i8")))

\* deallocate_local has just killed a local of a callee that shares its id
\* with a local of the caller: the id is still registered and declaring it
\* again aborts
C36_Witness ==
    /\ last = "deallocate_local"
    /\ Len(PT.frames) = 2
    /\ \E l \in current_frame(PT).locals :
          /\ ~is_place_live(PT, l[2])
          /\ get_by_local(PT.frames[1], l[1]) # None
          /\ get_by_local(PT.frames[1], l[1]) # Some(l[2])
          /\ ~add_local_ok(current_frame(PT), l[1], Len(PT.places) + 1)

\* The locals of the active frame that are live, initialized and unmoved
\* and hold the integer i
UsableIndexLocals(t, i) ==
    {l[1] : l \in {m \in current_frame(t).locals :
                      /\ is_place_init(t, m[2])
                      /\ ~is_place_moved(t, m[2])
                      /\ known_val(t, m[2]) = Some(Usize(i))}}

\* C37 as stated: when a live, initialized, unmoved local of the active
\* frame holds the usize literal i, element i of every array that
\* reachable_nodes enumerates is enumerated too.
C37_Original ==
    \A i \in 0..1 :
        UsableIndexLocals(PT, i) # {} =>
            \A a \in Arrays(PT) \cap ReachablePlaces(PT) :
                project_from_node(PT, a, ConstantIndex(i)) \subseteq ReachablePlaces(PT)

\* C38 as stated: after mark_place_uninit(p), no pointer among p and its
\* transitive non-deref subfields has an outgoing deref edge.
C38_Original ==
    \A p \in Nodes :
        mark_ok(PT, p) =>
            \A n \in Subtree(PT, p) :
                is_any_ptr(PT.places[n].ty) => pointee(mark_place_uninit(PT, p), n) = None

\* Every node under a root shares the root's allocation, so it is live
\* exactly when the root is
AllocationWide(t) ==
    \A r \in Roots(t) :
        \A n \in Subtree(t, r) :
            /\ t.places[n].alloc_id = t.places[r].alloc_id
            /\ is_place_live(t, n) <=> is_place_live(t, r)

\* No step makes a dead allocation live
NoRevival ==
    \A a \in DOMAIN memory.allocations :
        ~memory.allocations[a].live =>
            /\ a \in DOMAIN memory'.allocations
            /\ ~memory'.allocations[a].live

\* C39: all the nodes one allocate_local creates share one allocation id, so
\* a subfield is live iff its root local is, and a deallocated allocation
\* (by deallocate_local, exit_fn or a moved call argument) is never live again.
C39_LivenessAllocationWideIrreversible ==
    [](AllocationWide(PT)) /\ [][NoRevival]_vars

\* exit_fn has returned to a caller whose tuple was moved into the call: the
\* caller's tuple and the callee's are dead, fields included, and the
\* caller's array is live
C39_Witness ==
    /\ last = "exit_fn"
    /\ \E r \in Roots(PT) : Children(PT, r) # {} /\ ~is_place_live(PT, r)
    /\ \E r \in Roots(PT) : is_place_live(PT, r)

\* What mark_place_init and mark_place_uninit leave of t in t2, for p: the
\* initialization of every live place that does not overlap p, and the
\* dataflow, moved flag, literal and liveness of every place
MarkFrame(t, t2, p) ==
    /\ \A q \in 1..Len(t.places) :
          is_place_live(t, q) /\ ~overlap(t, p, q) =>
              is_place_init(t2, q) = is_place_init(t, q)
    /\ \A n \in 1..Len(t.places) :
          /\ t2.places[n].dataflow = t.places[n].dataflow
          /\ t2.places[n].moved = t.places[n].moved
          /\ t2.places[n].val = t.places[n].val
          /\ is_place_live(t2, n) = is_place_live(t, n)

\* C40: mark_place_init(p) and mark_place_uninit(p) change initialization
\* only where p overlaps: a live place that does not overlap p, a sibling
\* array element in p's byte run included, is initialized after exactly when
\* it was before, and no place's dataflow, moved flag, literal or liveness
\* changes.
C40_MarkChangesInitOnlyWhereOverlapping ==
    \A p \in Nodes :
        mark_ok(PT, p) =>
            /\ MarkFrame(PT, mark_place_init(PT, p), p)
            /\ MarkFrame(PT, mark_place_uninit(PT, p), p)

\* An array element has just been marked uninitialized while its sibling, in
\* the same byte run, stays initialized and keeps its literal and dataflow;
\* another place is moved
C40_Witness ==
    /\ last = "mark_place_uninit"
    /\ \E a \in Nodes : \E e, s \in Children(PT, a) :
          /\ e # s
          /\ places[a].run_ptr # None
          /\ ~is_place_init(PT, e)
          /\ is_place_init(PT, s)
          /\ ~overlap(PT, e, s)
          /\ places[s].val # None
          /\ places[s].dataflow = 3
    /\ \E n \in Nodes : places[n].moved

====
